---- MODULE Spec2Model ----
(***************************************************************************)
(* Verification model of the VEX IQ simulator client (client/src).         *)
(*                                                                         *)
(* Numbers.  The program computes in IEEE single precision; the model      *)
(* computes in fixed point with round-to-nearest:                          *)
(*   lengths              1 unit = 0.01 in   (1 LDU = 0.02 in = 2 units)   *)
(*   linear velocities    1 unit = 0.01 in/s                               *)
(*   angles               1 unit = 0.001 rad (PI = 3142)                   *)
(*   angular velocities   1 unit = 0.001 rad/s                             *)
(*   forces               1 unit = 0.001 lbf                               *)
(*   torques              1 unit = 0.001 in*lbf                            *)
(*   masses               1 unit = 0.001 lb                                *)
(*   motor commands       1 unit = 0.1 percent                             *)
(*   time steps           1 unit = 0.001 s                                 *)
(*   matrix entries, sines, cosines, ratios: scaled by Scale = 1000        *)
(***************************************************************************)
EXTENDS Integers, Sequences, FiniteSets, TLC

VARIABLES
    pc,                   \* position of the main loop (record, see NextPc)
    frame,                \* number of the frame being executed
    dt,                   \* main(): float dt of the current frame
    robots,               \* main(): std::vector<RobotInstance> robots
    parts,                \* main(): std::vector<PartInstance> parts
    cylinders,            \* scene.cylinders[0 .. cylinder_count)
    scene_robots,         \* scene.robots[0 .. robot_count)
    show_bounding_boxes,  \* main(): bool show_bounding_boxes
    active_robot_index,   \* main(): int active_robot_index
    should_quit,          \* platform.should_quit
    input,                \* what the environment offers: keys, IPC motor state
    ipc,                  \* a PythonBridge, its child process and its pipes
    load,                 \* a run of the loaders: mpd_load, then the mesh loop
    hist                  \* history (ghost) record used by the properties

vars == << pc, frame, dt, robots, parts, cylinders, scene_robots,
           show_bounding_boxes, active_robot_index, should_quit, input, ipc,
           load, hist >>

-----------------------------------------------------------------------------
(* Fixed-point helpers *)

Scale == 1000

Abs(x) == IF x < 0 THEN -x ELSE x

Min(a, b) == IF a < b THEN a ELSE b

Max(a, b) == IF a > b THEN a ELSE b

\* a / b rounded to nearest, ties away from zero (b > 0): float division
RDiv(a, b) == IF a >= 0 THEN (2 * a + b) \div (2 * b)
                        ELSE -((2 * (-a) + b) \div (2 * b))

\* product of a quantity and a Scale-d factor
Mul(a, f) == RDiv(a * f, Scale)

RECURSIVE SqrtBin(_, _, _)
SqrtBin(n, lo, hi) ==
    IF lo >= hi THEN lo
    ELSE LET mid == (lo + hi + 1) \div 2
         IN  IF mid * mid <= n THEN SqrtBin(n, mid, hi)
                               ELSE SqrtBin(n, lo, mid - 1)

\* sqrtf, rounded to nearest
sqrtf(n) ==
    LET f == SqrtBin(n, 0, 46340)
    IN  IF n - f * f > f THEN f + 1 ELSE f

-----------------------------------------------------------------------------
(* Program constants *)

PI == 3142                          \* drivetrain.cpp:13 (0.001 rad)
TWO_PI == 2 * PI                    \* drivetrain.cpp:256  2.0f * PI
HALF_PI == PI \div 2

FIELD_WIDTH == 9600                 \* main.cpp:111
FIELD_DEPTH == 7200                 \* main.cpp:112
LDU_SCALE == 2                      \* mpd_loader.h:75 (0.02 in per LDU)
COLLISION_TOLERANCE == 15           \* main.cpp:984
CYLINDER_TOLERANCE == 10            \* main.cpp:1299
MAX_ITERATIONS == 4                 \* main.cpp:1389
DT_CAP == 100                       \* main.cpp:1836

COLLISION_NONE == 0                 \* main.cpp:310
COLLISION_SUBMODEL == 1             \* main.cpp:311
COLLISION_PART == 2                 \* main.cpp:312
COLLISION_EXTERNAL == 3             \* main.cpp:313

VEXIQ_MOTOR_MAX_RPM == 120          \* physics_config.h:21
VEXIQ_MOTOR_STALL_TORQUE == 4600    \* physics_config.h:24
VEXIQ_DEFAULT_ROBOT_MASS == 3000    \* physics_config.h:35
VEXIQ_DEFAULT_MOMENT_OF_INERTIA == 130   \* physics_config.h:44 (x Scale)
VEXIQ_DEFAULT_WHEEL_DIAMETER == 400 \* physics_config.h:56
VEXIQ_LINEAR_DAMPING == 900         \* physics_config.h:65 (x Scale)
VEXIQ_ANGULAR_DAMPING == 850        \* physics_config.h:68 (x Scale)
DEFAULT_TRACK_WIDTH == 1000         \* drivetrain.cpp:17
DEFAULT_FRICTION == 800             \* drivetrain.cpp:31, scene.cpp:96
GRAVITY_X10 == 3861                 \* drivetrain.cpp:202 (386.1 in/s^2)
BRAKE_FACTOR == 850                 \* drivetrain.cpp:234
BRAKE_LINEAR_DEADBAND == 50         \* drivetrain.cpp:239 (0.5 in/s)
BRAKE_ANGULAR_DEADBAND == 10        \* drivetrain.cpp:240 (0.01 rad/s)
MOTORS_OFF_BELOW == 10              \* drivetrain.cpp:231 (1 percent)
MOTOR_PCT_MAX == 1000               \* drivetrain.cpp:54 (100 percent)

\* drivetrain.cpp:170-171 use VEXIQ_FORWARD_SPEED_SCALE and
\* VEXIQ_TURN_SPEED_SCALE, which no header of the repository defines; the
\* specification calls them "tuning scalars"; modelled as the neutral scale.
VEXIQ_FORWARD_SPEED_SCALE == 1000
VEXIQ_TURN_SPEED_SCALE == 1000

-----------------------------------------------------------------------------
(* libm: sinf / cosf in fixed point (Bhaskara's rational approximation,    *)
(* exact at the multiples of PI/2, periodic with period TWO_PI)            *)

SinHalfTurn(y) ==
    LET p == y * (PI - y)
    IN  RDiv(16 * p * 10, RDiv(5 * PI * PI - 4 * p, 100))

sinf(a) ==
    LET y == a % TWO_PI
    IN  IF y <= PI THEN SinHalfTurn(y) ELSE -SinHalfTurn(y - PI)

cosf(a) == sinf(a + HALF_PI)

-----------------------------------------------------------------------------
(* physics/obb.cpp: the OBB kernel.  Vec3 is a 3-tuple, a rotation is a     *)
(* row-major 9-tuple of Scale-d entries, OBB = [center, half_extents,      *)
(* rotation], AABB = [min, max].                                           *)

IDENTITY3 == << Scale, 0, 0,  0, Scale, 0,  0, 0, Scale >>

\* one entry of a * b: row i, column j (0-based)
Mat3Entry(a, b, i, j) ==
    RDiv(a[3*i + 1] * b[j + 1] + a[3*i + 2] * b[j + 4] + a[3*i + 3] * b[j + 7], Scale)

mat3_multiply(a, b) ==
    << Mat3Entry(a, b, 0, 0), Mat3Entry(a, b, 0, 1), Mat3Entry(a, b, 0, 2),
       Mat3Entry(a, b, 1, 0), Mat3Entry(a, b, 1, 1), Mat3Entry(a, b, 1, 2),
       Mat3Entry(a, b, 2, 0), Mat3Entry(a, b, 2, 1), Mat3Entry(a, b, 2, 2) >>

\* the rotation about Y with cosine c and sine s
RotationY(c, s) == << c, 0, s,  0, Scale, 0,  -s, 0, c >>

mat3_rotation_y(angle_rad) == RotationY(cosf(angle_rad), sinf(angle_rad))

mat3_transform_point(rot, p) ==
    << RDiv(rot[1]*p[1] + rot[2]*p[2] + rot[3]*p[3], Scale),
       RDiv(rot[4]*p[1] + rot[5]*p[2] + rot[6]*p[3], Scale),
       RDiv(rot[7]*p[1] + rot[8]*p[2] + rot[9]*p[3], Scale) >>

Vec3Add(p, q) == << p[1] + q[1], p[2] + q[2], p[3] + q[3] >>

obb_transform_matrix(local_obb, world_pos, rot_3x3) ==
    [ center       |-> Vec3Add(world_pos, mat3_transform_point(rot_3x3, local_obb.center)),
      half_extents |-> local_obb.half_extents,
      rotation     |-> mat3_multiply(rot_3x3, local_obb.rotation) ]

\* the corner with local coordinates (sx * ex, sy * ey, sz * ez)
ObbCorner(obb, sx, sy, sz) ==
    Vec3Add(obb.center,
            mat3_transform_point(obb.rotation,
               << sx * obb.half_extents[1], sy * obb.half_extents[2],
                  sz * obb.half_extents[3] >>))

obb_get_corners(obb) ==
    << ObbCorner(obb, -1, -1, -1), ObbCorner(obb, 1, -1, -1),
       ObbCorner(obb, 1, 1, -1),   ObbCorner(obb, -1, 1, -1),
       ObbCorner(obb, -1, -1, 1),  ObbCorner(obb, 1, -1, 1),
       ObbCorner(obb, 1, 1, 1),    ObbCorner(obb, -1, 1, 1) >>

RECURSIVE FoldMin(_, _, _)
FoldMin(s, k, i) ==
    IF i > Len(s) THEN s[1][k]
    ELSE Min(s[i][k], FoldMin(s, k, i + 1))

RECURSIVE FoldMax(_, _, _)
FoldMax(s, k, i) ==
    IF i > Len(s) THEN s[1][k]
    ELSE Max(s[i][k], FoldMax(s, k, i + 1))

\* the AABB of a sequence of points
PointsAabb(corners) ==
    [ min |-> << FoldMin(corners, 1, 2), FoldMin(corners, 2, 2),
                 FoldMin(corners, 3, 2) >>,
      max |-> << FoldMax(corners, 1, 2), FoldMax(corners, 2, 2),
                 FoldMax(corners, 3, 2) >> ]

obb_get_enclosing_aabb(obb) == PointsAabb(obb_get_corners(obb))

EPSILON == 1      \* obb.cpp:137, the smallest positive Scale-d value

\* the axes of an OBB: the columns of its rotation matrix
ObbAxes(rot) == << << rot[1], rot[4], rot[7] >>,
                   << rot[2], rot[5], rot[8] >>,
                   << rot[3], rot[6], rot[9] >> >>

Dot3(u, v) == u[1]*v[1] + u[2]*v[2] + u[3]*v[3]

\* R[i][j] = A_i . B_j
SatRow(Ai, B) == << RDiv(Dot3(Ai, B[1]), Scale), RDiv(Dot3(Ai, B[2]), Scale),
                    RDiv(Dot3(Ai, B[3]), Scale) >>

SatR(A, B) == << SatRow(A[1], B), SatRow(A[2], B), SatRow(A[3], B) >>

SatAbsRow(Ri) == << Abs(Ri[1]) + EPSILON, Abs(Ri[2]) + EPSILON, Abs(Ri[3]) + EPSILON >>

SatAbsR(R) == << SatAbsRow(R[1]), SatAbsRow(R[2]), SatAbsRow(R[3]) >>

\* Every comparison is made on Scale-d sides.  SepA / SepB: a face normal of
\* A / B separates; SepX: L = A_i x B_j separates, with (i1, i2) the other
\* two axes of A and (j1, j2) the other two axes of B, as obb.cpp writes out.
SepA(i, ta, ae, be, AbsR) ==
    Abs(ta[i]) * Scale >
      ae[i] * Scale + be[1]*AbsR[i][1] + be[2]*AbsR[i][2] + be[3]*AbsR[i][3]

SepB(i, tb, ae, be, AbsR) ==
    Abs(tb[i]) * Scale >
      ae[1]*AbsR[1][i] + ae[2]*AbsR[2][i] + ae[3]*AbsR[3][i] + be[i] * Scale

SepX(i, j, ta, ae, be, R, AbsR) ==
    LET i1 == IF i = 1 THEN 2 ELSE 1
        i2 == IF i = 3 THEN 2 ELSE 3
        j1 == IF j = 1 THEN 2 ELSE 1
        j2 == IF j = 3 THEN 2 ELSE 3
        \* ta[u]*R[v][j] - ta[v]*R[u][j], (u, v) = (3,2), (1,3), (2,1)
        u  == IF i = 1 THEN 3 ELSE IF i = 2 THEN 1 ELSE 2
        v  == IF i = 1 THEN 2 ELSE IF i = 2 THEN 3 ELSE 1
    IN  Abs(ta[u]*R[v][j] - ta[v]*R[u][j])
          > ae[i1]*AbsR[i2][j] + ae[i2]*AbsR[i1][j]
            + be[j1]*AbsR[i][j2] + be[j2]*AbsR[i][j1]

\* the 15 axis tests on the relative rotation R and the translation in
\* A's frame (ta) and in B's frame (tb)
SatAxes(ta, tb, ae, be, R, AbsR) ==
    /\ \A i \in 1..3 : ~SepA(i, ta, ae, be, AbsR)
    /\ \A i \in 1..3 : ~SepB(i, tb, ae, be, AbsR)
    /\ \A i \in 1..3 : \A j \in 1..3 : ~SepX(i, j, ta, ae, be, R, AbsR)

SatFrames(t, A, B, ae, be, R) ==
    SatAxes(<< RDiv(Dot3(t, A[1]), Scale), RDiv(Dot3(t, A[2]), Scale),
               RDiv(Dot3(t, A[3]), Scale) >>,
            << RDiv(Dot3(t, B[1]), Scale), RDiv(Dot3(t, B[2]), Scale),
               RDiv(Dot3(t, B[3]), Scale) >>,
            ae, be, R, SatAbsR(R))

SatBetween(t, A, B, ae, be) == SatFrames(t, A, B, ae, be, SatR(A, B))

obb_intersects_obb(a, b) ==
    SatBetween(<< b.center[1] - a.center[1], b.center[2] - a.center[2],
                  b.center[3] - a.center[3] >>,
               ObbAxes(a.rotation), ObbAxes(b.rotation),
               a.half_extents, b.half_extents)

\* the OBB that is the given AABB
AabbObb(aabb) ==
    [ center       |-> << RDiv(aabb.min[1] + aabb.max[1], 2),
                          RDiv(aabb.min[2] + aabb.max[2], 2),
                          RDiv(aabb.min[3] + aabb.max[3], 2) >>,
      half_extents |-> << RDiv(aabb.max[1] - aabb.min[1], 2),
                          RDiv(aabb.max[2] - aabb.min[2], 2),
                          RDiv(aabb.max[3] - aabb.min[3], 2) >>,
      rotation     |-> IDENTITY3 ]

obb_intersects_aabb(obb, aabb) == obb_intersects_obb(obb, AabbObb(aabb))

\* the point of the OBB's XZ footprint closest to (circle_x, circle_z),
\* from the projections of the centre offset on the local X and Z axes
ClosestPoint(obb, proj_x, proj_z) ==
    << obb.center[1] + RDiv(proj_x * obb.rotation[1] + proj_z * obb.rotation[3], Scale),
       obb.center[3] + RDiv(proj_x * obb.rotation[7] + proj_z * obb.rotation[9], Scale) >>

Clamp(x, lo, hi) == Max(lo, Min(hi, x))

\* dist^2 <= radius^2 for the distance from the closest point to the centre
WithinRadius(closest, circle_x, circle_z, circle_radius) ==
    (circle_x - closest[1]) * (circle_x - closest[1])
      + (circle_z - closest[2]) * (circle_z - closest[2])
    <= circle_radius * circle_radius

CircleProjection(obb, dx, dz) ==
    ClosestPoint(obb,
      Clamp(RDiv(dx * obb.rotation[1] + dz * obb.rotation[7], Scale),
            -obb.half_extents[1], obb.half_extents[1]),
      Clamp(RDiv(dx * obb.rotation[3] + dz * obb.rotation[9], Scale),
            -obb.half_extents[3], obb.half_extents[3]))

obb_intersects_circle(obb, circle_x, circle_z, circle_radius) ==
    WithinRadius(CircleProjection(obb, circle_x - obb.center[1], circle_z - obb.center[3]),
                 circle_x, circle_z, circle_radius)

-----------------------------------------------------------------------------
(* physics/drivetrain.cpp.  A Drivetrain is a record of the fields of the   *)
(* struct in drivetrain.h, plus in_contact / contact_nx / contact_nz, the  *)
(* three fields that main.cpp writes through robot->drivetrain.            *)

DEFAULT_CONFIG ==
    [ track_width       |-> DEFAULT_TRACK_WIDTH,
      wheel_diameter    |-> VEXIQ_DEFAULT_WHEEL_DIAMETER,
      max_rpm           |-> VEXIQ_MOTOR_MAX_RPM,
      robot_mass        |-> VEXIQ_DEFAULT_ROBOT_MASS,
      moment_of_inertia |-> VEXIQ_DEFAULT_MOMENT_OF_INERTIA ]

\* memset(dt, 0, ...); config = *config; friction_coeff = 0.8f
drivetrain_init ==
    [ config |-> DEFAULT_CONFIG,
      left_motor_pct |-> 0, right_motor_pct |-> 0,
      vel_x |-> 0, vel_z |-> 0, angular_vel |-> 0,
      pos_x |-> 0, pos_z |-> 0, heading |-> 0,
      ext_force_x |-> 0, ext_force_z |-> 0, ext_torque |-> 0,
      friction_coeff |-> DEFAULT_FRICTION,
      left_wheels_slipping |-> FALSE, right_wheels_slipping |-> FALSE,
      linear_velocity |-> 0, left_wheel_vel |-> 0, right_wheel_vel |-> 0,
      in_contact |-> FALSE, contact_nx |-> 0, contact_nz |-> 0 ]

ClampPct(p) == IF p > MOTOR_PCT_MAX THEN MOTOR_PCT_MAX
               ELSE IF p < -MOTOR_PCT_MAX THEN -MOTOR_PCT_MAX ELSE p

drivetrain_set_motors(d, left_percent, right_percent) ==
    [ d EXCEPT !.left_motor_pct  = ClampPct(left_percent),
               !.right_motor_pct = ClampPct(right_percent) ]

drivetrain_stop(d, mode) ==
    LET s == [ d EXCEPT !.left_motor_pct = 0, !.right_motor_pct = 0 ]
    IN  IF mode = 1
        THEN [ s EXCEPT !.vel_x = 0, !.vel_z = 0, !.angular_vel = 0 ]
        ELSE s

\* a force that replaces the accumulated one
ApplyForceOverwrite(d, force_x, force_z) ==
    [ d EXCEPT !.ext_force_x = force_x, !.ext_force_z = force_z ]

drivetrain_apply_force(d, force_x, force_z) ==
    [ d EXCEPT !.ext_force_x = @ + force_x, !.ext_force_z = @ + force_z ]

drivetrain_apply_torque(d, torque) ==
    [ d EXCEPT !.ext_torque = @ + torque ]

drivetrain_set_friction(d, friction_coeff) ==
    [ d EXCEPT !.friction_coeff = friction_coeff ]

drivetrain_set_position(d, x, z, heading) ==
    [ d EXCEPT !.pos_x = x, !.pos_z = z, !.heading = heading,
               !.vel_x = 0, !.vel_z = 0, !.angular_vel = 0 ]

\* a normalisation into [-PI, PI) instead of [-PI, PI]
RECURSIVE NormalizeHeadingHalfOpen(_)
NormalizeHeadingHalfOpen(h) ==
    IF h >= PI THEN NormalizeHeadingHalfOpen(h - TWO_PI)
    ELSE IF h < -PI THEN NormalizeHeadingHalfOpen(h + TWO_PI)
    ELSE h

\* while (heading > PI) heading -= 2PI;  while (heading < -PI) heading += 2PI
RECURSIVE NormalizeHeading(_)
NormalizeHeading(h) ==
    IF h > PI THEN NormalizeHeading(h - TWO_PI)
    ELSE IF h < -PI THEN NormalizeHeading(h + TWO_PI)
    ELSE h

\* Step 3: friction limit of one side; <<actual force, slipping>>
FrictionLimit(motor_force, max_friction) ==
    IF Abs(motor_force) > max_friction
    THEN << IF motor_force > 0 THEN max_friction ELSE -max_friction, TRUE >>
    ELSE << motor_force, FALSE >>

\* Step 1: the force of one side's motors, with the linear torque curve
MotorForce(d, motor_pct, wheel_vel) ==
    RDiv(motor_pct
           * RDiv(Mul(VEXIQ_MOTOR_STALL_TORQUE,
                      Scale - Min(Scale,
                                  RDiv(Abs(wheel_vel) * Scale,
                                       RDiv(d.config.max_rpm * PI * d.config.wheel_diameter,
                                            60 * Scale)))) * 100,
                  d.config.wheel_diameter \div 2),
         MOTOR_PCT_MAX)

\* Step 2: max_friction = friction_coeff * weight_per_side
MaxFriction(d) == Mul(d.config.robot_mass \div 2, d.friction_coeff)

\* a drive torque of the opposite sense: (left - right) * track_half
NetForcesClockwise(d, left_actual_force, right_actual_force, cos_h, sin_h) ==
    [ forward |-> Mul(left_actual_force + right_actual_force, VEXIQ_FORWARD_SPEED_SCALE)
                  + RDiv(d.ext_force_z * cos_h + d.ext_force_x * sin_h, Scale),
      lateral |-> RDiv(-d.ext_force_z * sin_h + d.ext_force_x * cos_h, Scale),
      torque  |-> Mul(RDiv((left_actual_force - right_actual_force)
                             * (d.config.track_width \div 2), 100),
                      VEXIQ_TURN_SPEED_SCALE)
                  + d.ext_torque ]

\* Steps 4 and 5: net force and torque in the robot frame
NetForces(d, left_actual_force, right_actual_force, cos_h, sin_h) ==
    [ forward |-> Mul(left_actual_force + right_actual_force, VEXIQ_FORWARD_SPEED_SCALE)
                  + RDiv(d.ext_force_z * cos_h + d.ext_force_x * sin_h, Scale),
      lateral |-> RDiv(-d.ext_force_z * sin_h + d.ext_force_x * cos_h, Scale),
      torque  |-> Mul(RDiv((right_actual_force - left_actual_force)
                             * (d.config.track_width \div 2), 100),
                      VEXIQ_TURN_SPEED_SCALE)
                  + d.ext_torque ]

\* Steps 6 and 7: accelerations (mass_slugs = robot_mass / 386.1), velocity
\* integration in the robot frame and damping
IntegrateVelocity(d, dt_sec, f, cos_h, sin_h) ==
    [ forward |-> Mul(RDiv(d.vel_z * cos_h + d.vel_x * sin_h, Scale)
                        + RDiv(RDiv(f.forward * GRAVITY_X10, d.config.robot_mass \div 10)
                                 * dt_sec, Scale),
                      VEXIQ_LINEAR_DAMPING),
      lateral |-> Mul(RDiv(-d.vel_z * sin_h + d.vel_x * cos_h, Scale)
                        + RDiv(RDiv(f.lateral * GRAVITY_X10, d.config.robot_mass \div 10)
                                 * dt_sec, Scale),
                      VEXIQ_LINEAR_DAMPING),
      angular |-> Mul(d.angular_vel
                        + RDiv(RDiv(f.torque * Scale, d.config.moment_of_inertia)
                                 * dt_sec, Scale),
                      VEXIQ_ANGULAR_DAMPING) ]

\* v *= brake_factor; if (fabsf(v) < deadband) v = 0
BrakeVelocity(v, deadband) ==
    IF Abs(Mul(v, BRAKE_FACTOR)) < deadband THEN 0 ELSE Mul(v, BRAKE_FACTOR)

\* Step 7, braking: only when both motors are below 1 percent, and only the
\* forward and the angular velocity
ApplyBrake(d, v) ==
    IF Abs(d.left_motor_pct) < MOTORS_OFF_BELOW /\ Abs(d.right_motor_pct) < MOTORS_OFF_BELOW
    THEN [ v EXCEPT !.forward = BrakeVelocity(@, BRAKE_LINEAR_DEADBAND),
                    !.angular = BrakeVelocity(@, BRAKE_ANGULAR_DEADBAND) ]
    ELSE v

\* Steps 8 and 9 and the stores of the earlier steps
StoreUpdate(d, dt_sec, left_slipping, right_slipping, v, vel_x, vel_z) ==
    [ d EXCEPT
        !.left_wheels_slipping  = left_slipping,
        !.right_wheels_slipping = right_slipping,
        !.ext_force_x = 0, !.ext_force_z = 0, !.ext_torque = 0,
        !.angular_vel = v.angular,
        !.vel_x = vel_x,
        !.vel_z = vel_z,
        !.pos_x = @ + RDiv(vel_x * dt_sec, Scale),
        !.pos_z = @ + RDiv(vel_z * dt_sec, Scale),
        !.heading = NormalizeHeading(@ + RDiv(v.angular * dt_sec, Scale)),
        !.linear_velocity = v.forward,
        !.left_wheel_vel  = v.forward
                            - RDiv(v.angular * (d.config.track_width \div 2), Scale),
        !.right_wheel_vel = v.forward
                            + RDiv(v.angular * (d.config.track_width \div 2), Scale) ]

\* Step 7, back to the world frame
WorldVelocity(d, dt_sec, left_slipping, right_slipping, v, cos_h, sin_h) ==
    StoreUpdate(d, dt_sec, left_slipping, right_slipping, v,
                RDiv(v.forward * sin_h + v.lateral * cos_h, Scale),
                RDiv(v.forward * cos_h - v.lateral * sin_h, Scale))

UpdateWith(d, dt_sec, left_lim, right_lim, cos_h, sin_h) ==
    WorldVelocity(d, dt_sec, left_lim[2], right_lim[2],
                  ApplyBrake(d, IntegrateVelocity(d, dt_sec,
                                  NetForces(d, left_lim[1], right_lim[1], cos_h, sin_h),
                                  cos_h, sin_h)),
                  cos_h, sin_h)

drivetrain_update(d, dt_sec) ==
    UpdateWith(d, dt_sec,
               FrictionLimit(MotorForce(d, d.left_motor_pct, d.left_wheel_vel),
                             MaxFriction(d)),
               FrictionLimit(MotorForce(d, d.right_motor_pct, d.right_wheel_vel),
                             MaxFriction(d)),
               cosf(d.heading), sinf(d.heading))

-----------------------------------------------------------------------------
(* Scene realization: main.cpp:1494-1741.  The inputs are the loaded scene, *)
(* the assembly documents mpd_load returned and the meshes glb_load finds. *)

FLT_MAX == 10000000      \* <float.h>: larger than every coordinate

DEG_TO_RAD(deg) == RDiv(deg * PI, 180)        \* main.cpp:120

\* compute_ground_offset: the minimum Y over the corners of the mesh bounds
\* of the robot's parts, rotated by row 2 of C*M*C
RECURSIVE GroundMinY(_, _, _, _)
GroundMinY(ps, robot_index, i, min_y) ==
    IF i > Len(ps) THEN min_y
    ELSE
      LET part == ps[i]
          d2 == -part.rotation[4]
          e2 == part.rotation[5]
          f2 == part.rotation[6]
          ys == { RDiv(d2 * lx + e2 * ly + f2 * lz, Scale)
                    + (-part.position[2] * LDU_SCALE) :
                  lx \in { part.mesh.min_bounds[1], part.mesh.max_bounds[1] },
                  ly \in { part.mesh.min_bounds[2], part.mesh.max_bounds[2] },
                  lz \in { part.mesh.min_bounds[3], part.mesh.max_bounds[3] } }
          my == CHOOSE y \in ys : \A y2 \in ys : y <= y2
      IN  IF part.robot_index # robot_index
          THEN GroundMinY(ps, robot_index, i + 1, min_y)
          ELSE GroundMinY(ps, robot_index, i + 1, Min(min_y, my))

GroundOffsetOf(min_y) == IF min_y = FLT_MAX THEN 0 ELSE -min_y

compute_ground_offset(ps, robot_index) ==
    IF Len(ps) = 0 THEN 0
    ELSE GroundOffsetOf(GroundMinY(ps, robot_index, 1, FLT_MAX))

\* C*M*C with C = diag(1,-1,-1): the LDraw rotation in render coordinates
FlipYZ(r) == <<  r[1], -r[2], -r[3],
                -r[4],  r[5],  r[6],
                -r[7],  r[8],  r[9] >>

MeshCenter(mesh) ==
    << RDiv(mesh.min_bounds[1] + mesh.max_bounds[1], 2),
       RDiv(mesh.min_bounds[2] + mesh.max_bounds[2], 2),
       RDiv(mesh.min_bounds[3] + mesh.max_bounds[3], 2) >>

\* the part's OBB in robot-local render coordinates
compute_part_local_obb(part, rotation_center_ldu) ==
    [ center       |-> Vec3Add(
                         << (part.position[1] - rotation_center_ldu[1]) * LDU_SCALE,
                            -(part.position[2] - rotation_center_ldu[2]) * LDU_SCALE,
                            -(part.position[3] - rotation_center_ldu[3]) * LDU_SCALE >>,
                         mat3_transform_point(FlipYZ(part.rotation), MeshCenter(part.mesh))),
      half_extents |-> << RDiv(part.mesh.max_bounds[1] - part.mesh.min_bounds[1], 2),
                          RDiv(part.mesh.max_bounds[2] - part.mesh.min_bounds[2], 2),
                          RDiv(part.mesh.max_bounds[3] - part.mesh.min_bounds[3], 2) >>,
      rotation     |-> FlipYZ(part.rotation) ]

\* min/max of the running bounds with the corners of one more OBB
GrowBounds(acc, box) ==
    [ min |-> << Min(acc.min[1], box.min[1]), Min(acc.min[2], box.min[2]),
                 Min(acc.min[3], box.min[3]) >>,
      max |-> << Max(acc.max[1], box.max[1]), Max(acc.max[2], box.max[2]),
                 Max(acc.max[3], box.max[3]) >> ]

\* compute_submodel_obb: AABB over the corners of the part OBBs of the slice
\* [parts_start_index + start, parts_start_index + start + count).
RECURSIVE SubmodelBounds(_, _, _, _, _)
SubmodelBounds(ps, first, count, i, acc) ==
    IF i >= count THEN acc
    ELSE IF first + i >= Len(ps)
    THEN SubmodelBounds(ps, first, count, i + 1, acc)
    ELSE SubmodelBounds(ps, first, count, i + 1,
           GrowBounds(acc, obb_get_enclosing_aabb(ps[first + i + 1].local_obb)))

\* uninit stands for the rotation that is left unassigned when count = 0
compute_submodel_obb(robot, submodel_idx, ps, uninit) ==
    IF robot.submodel_part_count[submodel_idx + 1] = 0
    THEN [ center |-> << 0, 0, 0 >>, half_extents |-> << 0, 0, 0 >>,
           rotation |-> uninit ]
    ELSE AabbObb(SubmodelBounds(ps,
                   robot.parts_start_index + robot.submodel_part_start[submodel_idx + 1],
                   robot.submodel_part_count[submodel_idx + 1], 0,
                   [ min |-> << FLT_MAX, FLT_MAX, FLT_MAX >>,
                     max |-> << -FLT_MAX, -FLT_MAX, -FLT_MAX >> ]))

\* main.cpp:1590-1659: the part instances of one robot; a part whose mesh
\* cannot be loaded is not instantiated
RECURSIVE LoadParts(_, _, _, _, _)
LoadParts(doc, meshes, current_robot_index, i, acc) ==
    IF i > Len(doc.parts) THEN acc
    ELSE IF doc.parts[i].part_name \notin DOMAIN meshes
    THEN LoadParts(doc, meshes, current_robot_index, i + 1, acc)
    ELSE LoadParts(doc, meshes, current_robot_index, i + 1,
           Append(acc, [ mesh |-> meshes[doc.parts[i].part_name],
                         part_name |-> doc.parts[i].part_name,
                         position |-> << doc.parts[i].x, doc.parts[i].y, doc.parts[i].z >>,
                         rotation |-> doc.parts[i].rotation,
                         robot_index |-> current_robot_index,
                         wheel_index |-> -1,
                         submodel_index |-> doc.parts[i].submodel_index,
                         collision_state |-> COLLISION_NONE ]))

\* the first wheel assembly of the given side, or -1
FirstWheel(wheels, wheel_count, left) ==
    IF \E wi \in 1..wheel_count : wheels[wi].is_left = left
    THEN (CHOOSE wi \in 1..wheel_count :
            /\ wheels[wi].is_left = left
            /\ \A o \in 1..(wi - 1) : wheels[o].is_left # left) - 1
    ELSE -1

\* main.cpp:1707-1734: the wheel a part spins with, by part number and side
MatchWheel(part, wheels, wheel_count) ==
    IF \E wi \in 1..wheel_count : part.part_name \in wheels[wi].part_numbers
    THEN FirstWheel(wheels, wheel_count, part.position[1] < 0)
    ELSE part.wheel_index

\* main.cpp:1528-1577: the wheel assemblies copied from the robot definition
WheelsOf(def) ==
    [ w \in 1..Len(def.wheels) |->
        [ is_left      |-> def.wheels[w].is_left,
          diameter_mm  |-> def.wheels[w].outer_diameter_mm,
          spin_axis    |-> def.wheels[w].spin_axis,
          part_numbers |-> def.wheels[w].part_numbers,
          spin_angle   |-> 0 ] ]

\* main.cpp:1684-1734: local OBBs and wheel indices of the loaded parts
WithObb(loaded, wheels, wheel_count, rotation_center) ==
    [ i \in 1..Len(loaded) |->
        [ mesh |-> loaded[i].mesh,
          part_name |-> loaded[i].part_name,
          position |-> loaded[i].position,
          rotation |-> loaded[i].rotation,
          robot_index |-> loaded[i].robot_index,
          wheel_index |-> MatchWheel(loaded[i], wheels, wheel_count),
          submodel_index |-> loaded[i].submodel_index,
          collision_state |-> loaded[i].collision_state,
          local_obb |-> compute_part_local_obb(loaded[i], rotation_center) ] ]

\* main.cpp:1512-1526, 1583-1585, 1664-1681: the RobotInstance before its
\* submodel OBBs and ground offset are computed
NewRobot(scene_robot, doc, has_robotdef, rotation_center, wheel_count, wheels, parts_start_index, parts_count) ==
    [ offset |-> << scene_robot.x, scene_robot.y, scene_robot.z >>,
      rotation_y |-> DEG_TO_RAD(scene_robot.rotation_y),
      ground_offset |-> 0,
      has_robotdef |-> has_robotdef,
      rotation_center |-> rotation_center,
      rotation_axis |-> << 0, Scale, 0 >>,
      track_width |-> 0,
      wheel_count |-> wheel_count,
      wheels |-> wheels,
      drivetrain |->
          drivetrain_set_friction(
            drivetrain_set_position(drivetrain_init, scene_robot.x, scene_robot.z,
                                    DEG_TO_RAD(scene_robot.rotation_y)),
            DEFAULT_FRICTION),
      submodel_count |-> Len(doc.submodels),
      parts_start_index |-> parts_start_index,
      parts_count |-> parts_count,
      submodel_part_start |-> [ k \in 1..Len(doc.submodels) |-> doc.submodels[k].part_start ],
      submodel_part_count |-> [ k \in 1..Len(doc.submodels) |-> doc.submodels[k].part_count ],
      submodel_collision_state |-> [ k \in 1..Len(doc.submodels) |-> COLLISION_NONE ],
      submodel_obbs |-> << >> ]

\* main.cpp:1684-1705: submodel OBBs and ground offset
FinishRobot(r0, ps, current_robot_index, uninit_rotation) ==
    [ r0 EXCEPT
        !.submodel_obbs = [ k \in 1..r0.submodel_count |->
                              compute_submodel_obb(r0, k - 1, ps, uninit_rotation) ],
        !.ground_offset = compute_ground_offset(ps, current_robot_index)
                          + (-r0.rotation_center[2] * LDU_SCALE) ]

AddRobot(st, new_parts, scene_robot, doc, has_robotdef, rotation_center, wheel_count, wheels, uninit_rotation) ==
    [ robots |-> Append(st.robots,
                   FinishRobot(NewRobot(scene_robot, doc, has_robotdef, rotation_center,
                                        wheel_count, wheels, Len(st.parts), Len(new_parts)),
                               st.parts \o new_parts, Len(st.robots), uninit_rotation)),
      parts  |-> st.parts \o new_parts ]

RealizeWith(st, scene_robot, doc, meshes, has_robotdef, rotation_center, wheel_count, wheels, uninit_rotation) ==
    AddRobot(st,
             WithObb(LoadParts(doc, meshes, Len(st.robots), 1, << >>),
                     wheels, wheel_count, rotation_center),
             scene_robot, doc, has_robotdef, rotation_center, wheel_count, wheels,
             uninit_rotation)

\* main.cpp:1545-1549: the rotation axis and track width of the definition
\* replace the defaults of the robot just added
WithAxis(st, def) ==
    [ st EXCEPT !.robots[Len(st.robots)].rotation_axis = def.rotation_axis,
                !.robots[Len(st.robots)].track_width = def.track_width ]

\* one iteration of the loop over scene.robots (the document loaded).
\* defs holds the robot definitions robotdef_load finds; without one the
\* wheel fields of the RobotInstance keep whatever the stack held (uninit).
RealizeRobot(st, scene_robot, doc, defs, meshes, uninit) ==
    IF scene_robot.mpd_file \in DOMAIN defs
    THEN WithAxis(RealizeWith(st, scene_robot, doc, meshes, TRUE,
                              defs[scene_robot.mpd_file].rotation_center,
                              Len(defs[scene_robot.mpd_file].wheels),
                              WheelsOf(defs[scene_robot.mpd_file]), uninit.rotation),
                  defs[scene_robot.mpd_file])
    ELSE RealizeWith(st, scene_robot, doc, meshes, FALSE, << 0, 0, 0 >>,
                     uninit.wheel_count, uninit.wheels, uninit.rotation)

RECURSIVE RealizeScene(_, _, _, _, _, _, _)
RealizeScene(sr, docs, defs, meshes, uninit, i, st) ==
    IF i > Len(sr) THEN st
    ELSE IF sr[i].mpd_file \notin DOMAIN docs     \* mpd_load failed: continue
    THEN RealizeScene(sr, docs, defs, meshes, uninit, i + 1, st)
    ELSE RealizeScene(sr, docs, defs, meshes, uninit, i + 1,
                      RealizeRobot(st, sr[i], docs[sr[i].mpd_file], defs, meshes, uninit))

-----------------------------------------------------------------------------
(* Collision response: main.cpp:753-763 and 986-1409 *)

PUSH_LEN_MIN == 1            \* main.cpp:1082, 1166: 0.001 in, in tenths of a unit
DIST_MIN == 0                \* main.cpp:1255, 1312: 0.001 in, below one unit
CYL_CONTACT_MIN == 1         \* main.cpp:1274: 0.01 in
CYL_TRANSFER == 800          \* main.cpp:1281: 0.8 (x Scale)
CYLINDER_FRICTION == 850     \* main.cpp:1297 (x Scale)
WALL_BOUNCE == 0             \* main.cpp:1298
CYL_DEADBAND == 10           \* main.cpp:1351: 0.1 in/s
WALL_THICKNESS == 100        \* main.cpp:995: 1.0f
WALL_TOP == 1000             \* main.cpp:996: 10.0f

\* sqrtf(x * x + z * z) of a push, in tenths of a unit
PushLen10(x, z) == sqrtf((x * x + z * z) * 100)

\* the pose the collision code tests a robot at: the render-side offset and
\* rotation_y of the RobotInstance, not the drivetrain's pos_x/pos_z/heading
transform_obb_to_world(local_obb, robot) ==
    obb_transform_matrix(local_obb,
        << robot.offset[1], robot.ground_offset, robot.offset[3] >>,
        mat3_rotation_y(robot.rotation_y))

\* walls[0..3]: left, right, back, front
Walls(fhw, fhd) ==
    << [ min |-> << -fhw - WALL_THICKNESS, 0, -fhd >>, max |-> << -fhw, WALL_TOP, fhd >> ],
       [ min |-> << fhw, 0, -fhd >>, max |-> << fhw + WALL_THICKNESS, WALL_TOP, fhd >> ],
       [ min |-> << -fhw, 0, -fhd - WALL_THICKNESS >>, max |-> << fhw, WALL_TOP, -fhd >> ],
       [ min |-> << -fhw, 0, fhd >>, max |-> << fhw, WALL_TOP, fhd + WALL_THICKNESS >> ] >>

\* the push of one part without the dead-zone: the whole penetration
WallPartPushNoTolerance(part_aabb, w, fhw, fhd) ==
    IF w = 0 /\ part_aabb.min[1] < -fhw THEN << -fhw - part_aabb.min[1], 0 >>
    ELSE IF w = 1 /\ part_aabb.max[1] > fhw THEN << -(part_aabb.max[1] - fhw), 0 >>
    ELSE IF w = 2 /\ part_aabb.min[3] < -fhd THEN << 0, -fhd - part_aabb.min[3] >>
    ELSE IF w = 3 /\ part_aabb.max[3] > fhd THEN << 0, -(part_aabb.max[3] - fhd) >>
    ELSE << 0, 0 >>

\* push of one part against wall w (main.cpp:1042-1056)
WallPartPush(part_aabb, w, fhw, fhd) ==
    IF w = 0 /\ part_aabb.min[1] < -fhw
    THEN LET penetration == -fhw - part_aabb.min[1]
         IN  << IF penetration > COLLISION_TOLERANCE
                THEN penetration - COLLISION_TOLERANCE ELSE 0, 0 >>
    ELSE IF w = 1 /\ part_aabb.max[1] > fhw
    THEN LET penetration == part_aabb.max[1] - fhw
         IN  << IF penetration > COLLISION_TOLERANCE
                THEN -(penetration - COLLISION_TOLERANCE) ELSE 0, 0 >>
    ELSE IF w = 2 /\ part_aabb.min[3] < -fhd
    THEN LET penetration == -fhd - part_aabb.min[3]
         IN  << 0, IF penetration > COLLISION_TOLERANCE
                   THEN penetration - COLLISION_TOLERANCE ELSE 0 >>
    ELSE IF w = 3 /\ part_aabb.max[3] > fhd
    THEN LET penetration == part_aabb.max[3] - fhd
         IN  << 0, IF penetration > COLLISION_TOLERANCE
                   THEN -(penetration - COLLISION_TOLERANCE) ELSE 0 >>
    ELSE << 0, 0 >>

\* index into parts of part p of submodel sm
PartIndex(robot, sm, p) ==
    robot.parts_start_index + robot.submodel_part_start[sm + 1] + p

MarkSubmodels(robot, states) == [ robot EXCEPT !.submodel_collision_state = states ]

\* the drivetrain written back, and offset[0] / offset[2] set from its position
MoveTo(robot, d) ==
    [ robot EXCEPT !.drivetrain = d, !.offset[1] = d.pos_x, !.offset[3] = d.pos_z ]

\* a part that hits the wall: mark it, track the maximum push
\* (main.cpp:1036, 1058-1060); acc = [max_push_x, max_push_z, sm_state, ps]
WallHit(acc, idx, push) ==
    [ acc EXCEPT
        !.ps[idx + 1].collision_state = COLLISION_EXTERNAL,
        !.max_push_x = IF Abs(push[1]) > Abs(@) THEN push[1] ELSE @,
        !.max_push_z = IF Abs(push[2]) > Abs(@) THEN push[2] ELSE @ ]

\* narrow phase for one part (main.cpp:1028-1060)
WallPart(acc, idx, w, fhw, fhd, world_part_obb) ==
    IF ~obb_intersects_aabb(world_part_obb, Walls(fhw, fhd)[w + 1])
    THEN acc
    ELSE WallHit(acc, idx,
                 WallPartPush(obb_get_enclosing_aabb(world_part_obb), w, fhw, fhd))

\* the loop over the parts of submodel sm against wall w
RECURSIVE WallParts(_, _, _, _, _, _, _)
WallParts(robot, fhw, fhd, sm, w, p, acc) ==
    IF p >= robot.submodel_part_count[sm + 1] THEN acc
    ELSE IF PartIndex(robot, sm, p) >= Len(acc.ps)
    THEN WallParts(robot, fhw, fhd, sm, w, p + 1, acc)
    ELSE WallParts(robot, fhw, fhd, sm, w, p + 1,
           WallPart(acc, PartIndex(robot, sm, p), w, fhw, fhd,
                    transform_obb_to_world(acc.ps[PartIndex(robot, sm, p) + 1].local_obb,
                                           robot)))

\* the loops over the submodels and the walls (broad phase)
RECURSIVE WallScan(_, _, _, _, _, _)
WallScan(robot, fhw, fhd, sm, w, acc) ==
    IF sm >= robot.submodel_count THEN acc
    ELSE IF w >= 4 THEN WallScan(robot, fhw, fhd, sm + 1, 0, acc)
    ELSE IF ~obb_intersects_aabb(
               transform_obb_to_world(robot.submodel_obbs[sm + 1], robot),
               Walls(fhw, fhd)[w + 1])
    THEN WallScan(robot, fhw, fhd, sm, w + 1, acc)
    ELSE WallScan(robot, fhw, fhd, sm, w + 1,
           WallParts(robot, fhw, fhd, sm, w, 0,
             [ acc EXCEPT !.sm_state[sm + 1] = Max(@, COLLISION_SUBMODEL) ]))

\* main.cpp:1080-1086: the contact constraint
WallContact(d, max_push_x, max_push_z, push_len) ==
    IF push_len > PUSH_LEN_MIN
    THEN [ d EXCEPT !.in_contact = TRUE,
                    !.contact_nx = RDiv(max_push_x * Scale * 10, push_len),
                    !.contact_nz = RDiv(max_push_z * Scale * 10, push_len) ]
    ELSE d

\* main.cpp:1066-1086: the maximum push applied to the drivetrain
WallPush(d, max_push_x, max_push_z) ==
    WallContact([ d EXCEPT !.pos_x = @ + max_push_x,
                           !.pos_z = @ + max_push_z,
                           !.vel_x = IF max_push_x # 0 THEN 0 ELSE @,
                           !.vel_z = IF max_push_z # 0 THEN 0 ELSE @ ],
                max_push_x, max_push_z, PushLen10(max_push_x, max_push_z))

WallRespond(robot, scan) ==
    [ robot |-> IF scan.max_push_x # 0 \/ scan.max_push_z # 0
                THEN MoveTo(MarkSubmodels(robot, scan.sm_state),
                            WallPush(robot.drivetrain, scan.max_push_x, scan.max_push_z))
                ELSE MarkSubmodels(robot, scan.sm_state),
      ps |-> scan.ps ]

\* returns [robot, ps]
apply_wall_collision_response(robot, ps, fhw, fhd) ==
    WallRespond(robot,
      WallScan(robot, fhw, fhd, 0, 0,
        [ max_push_x |-> 0, max_push_z |-> 0,
          sm_state |-> robot.submodel_collision_state, ps |-> ps ]))

\* the signed push of one overlapping submodel pair on its axis of minimum
\* penetration (main.cpp:1128-1149);
\* acc = [total_push_x, total_push_z, collision_count, state_a, state_b]
RobotPairPush(acc, overlap_x, overlap_z, a_left_of_b, a_behind_b) ==
    IF overlap_x > 0 /\ overlap_z > 0
       /\ Min(overlap_x, overlap_z) > COLLISION_TOLERANCE
    THEN IF overlap_x < overlap_z
         THEN [ acc EXCEPT
                  !.total_push_x = @ + (IF a_left_of_b
                                        THEN -(overlap_x - COLLISION_TOLERANCE)
                                        ELSE overlap_x - COLLISION_TOLERANCE),
                  !.collision_count = @ + 1 ]
         ELSE [ acc EXCEPT
                  !.total_push_z = @ + (IF a_behind_b
                                        THEN -(overlap_z - COLLISION_TOLERANCE)
                                        ELSE overlap_z - COLLISION_TOLERANCE),
                  !.collision_count = @ + 1 ]
    ELSE acc

\* overlaps and centre order of the enclosing AABBs; the centres
\* (min + max) * 0.5 are only compared, so twice the centres are
RobotPair(acc, aabb_a, aabb_b) ==
    RobotPairPush(acc,
      Min(aabb_a.max[1], aabb_b.max[1]) - Max(aabb_a.min[1], aabb_b.min[1]),
      Min(aabb_a.max[3], aabb_b.max[3]) - Max(aabb_a.min[3], aabb_b.min[3]),
      aabb_a.min[1] + aabb_a.max[1] < aabb_b.min[1] + aabb_b.max[1],
      aabb_a.min[3] + aabb_a.max[3] < aabb_b.min[3] + aabb_b.max[3])

RobotSubmodels(acc, sm_a, sm_b, world_sm_a, world_sm_b) ==
    IF ~obb_intersects_obb(world_sm_a, world_sm_b)
    THEN acc
    ELSE RobotPair([ acc EXCEPT !.state_a[sm_a + 1] = COLLISION_SUBMODEL,
                                !.state_b[sm_b + 1] = COLLISION_SUBMODEL ],
                   obb_get_enclosing_aabb(world_sm_a),
                   obb_get_enclosing_aabb(world_sm_b))

\* the two nested loops of apply_robot_collision_response
RECURSIVE RobotScan(_, _, _, _, _)
RobotScan(robot_a, robot_b, sm_a, sm_b, acc) ==
    IF sm_a >= robot_a.submodel_count THEN acc
    ELSE IF sm_b >= robot_b.submodel_count
    THEN RobotScan(robot_a, robot_b, sm_a + 1, 0, acc)
    ELSE RobotScan(robot_a, robot_b, sm_a, sm_b + 1,
           RobotSubmodels(acc, sm_a, sm_b,
             transform_obb_to_world(robot_a.submodel_obbs[sm_a + 1], robot_a),
             transform_obb_to_world(robot_b.submodel_obbs[sm_b + 1], robot_b)))

\* velocity with the component into the contact removed (main.cpp:1171-1182)
RemoveInto(d, nx, nz, vel_into) ==
    IF vel_into < 0
    THEN [ d EXCEPT !.vel_x = @ - RDiv(vel_into * nx, Scale),
                    !.vel_z = @ - RDiv(vel_into * nz, Scale) ]
    ELSE d

RemoveVelocityInto(d, nx, nz) ==
    RemoveInto(d, nx, nz, RDiv(d.vel_x * nx + d.vel_z * nz, Scale))

\* one robot of the pair moved by (push_x, push_z) with contact normal (nx, nz)
PushRobot(robot, push_x, push_z, push_len, nx, nz) ==
    MoveTo(robot,
      IF push_len > PUSH_LEN_MIN
      THEN [ RemoveVelocityInto([ robot.drivetrain EXCEPT !.pos_x = @ + push_x,
                                                          !.pos_z = @ + push_z ],
                                nx, nz)
               EXCEPT !.in_contact = TRUE, !.contact_nx = nx, !.contact_nz = nz ]
      ELSE [ robot.drivetrain EXCEPT !.pos_x = @ + push_x, !.pos_z = @ + push_z ])

\* a response that moves robot A by the whole correction and leaves robot B
\* in place
SeparateWithOneSided(ma, mb, push_x, push_z, push_len) ==
    << PushRobot(ma, 2 * push_x, 2 * push_z, push_len,
                 RDiv(push_x * Scale * 10, push_len),
                 RDiv(push_z * Scale * 10, push_len)),
       PushRobot(mb, 0, 0, push_len,
                 -RDiv(push_x * Scale * 10, push_len),
                 -RDiv(push_z * Scale * 10, push_len)) >>

SeparateWith(ma, mb, push_x, push_z, push_len) ==
    << PushRobot(ma, push_x, push_z, push_len,
                 RDiv(push_x * Scale * 10, push_len),
                 RDiv(push_z * Scale * 10, push_len)),
       PushRobot(mb, -push_x, -push_z, push_len,
                 -RDiv(push_x * Scale * 10, push_len),
                 -RDiv(push_z * Scale * 10, push_len)) >>

\* main.cpp:1154-1191: the averaged push, split between the two robots;
\* returns << robot_a, robot_b >>
SeparateRobots(ma, mb, push_x, push_z) ==
    SeparateWith(ma, mb, push_x, push_z, PushLen10(push_x, push_z))

RobotRespond(robot_a, robot_b, scan) ==
    IF scan.collision_count > 0
    THEN SeparateRobots(MarkSubmodels(robot_a, scan.state_a),
                        MarkSubmodels(robot_b, scan.state_b),
                        RDiv(RDiv(scan.total_push_x, scan.collision_count), 2),
                        RDiv(RDiv(scan.total_push_z, scan.collision_count), 2))
    ELSE << MarkSubmodels(robot_a, scan.state_a), MarkSubmodels(robot_b, scan.state_b) >>

\* returns << robot_a, robot_b >>
apply_robot_collision_response(robot_a, robot_b) ==
    RobotRespond(robot_a, robot_b,
      RobotScan(robot_a, robot_b, 0, 0,
        [ total_push_x |-> 0, total_push_z |-> 0, collision_count |-> 0,
          state_a |-> robot_a.submodel_collision_state,
          state_b |-> robot_b.submodel_collision_state ]))

\* deepest contact so far (main.cpp:1255-1270); acc = [max_penetration,
\* contact_nx, contact_nz, any_contact, sm_state, ps]
CylinderContact(acc, dx, dz, dist, combined_radius) ==
    IF dist < combined_radius /\ dist > DIST_MIN
    THEN [ acc EXCEPT
             !.contact_nx = IF ~acc.any_contact
                               \/ combined_radius - dist > acc.max_penetration
                            THEN RDiv(dx * Scale, dist) ELSE @,
             !.contact_nz = IF ~acc.any_contact
                               \/ combined_radius - dist > acc.max_penetration
                            THEN RDiv(dz * Scale, dist) ELSE @,
             !.any_contact = TRUE,
             !.max_penetration = Max(@, combined_radius - dist) ]
    ELSE acc

CylinderOffset(acc, cyl, dx, dz, part_rx, part_rz) ==
    CylinderContact(acc, dx, dz, sqrtf(dx * dx + dz * dz),
                    cyl.radius + RDiv(sqrtf(part_rx * part_rx + part_rz * part_rz), 2))

\* narrow phase for one part (main.cpp:1231-1271)
CylinderPart(acc, idx, cyl, world_part, part_aabb) ==
    IF ~obb_intersects_circle(world_part, cyl.x, cyl.z, cyl.radius)
    THEN acc
    ELSE CylinderOffset([ acc EXCEPT !.ps[idx + 1].collision_state = COLLISION_EXTERNAL ],
                        cyl,
                        RDiv(part_aabb.min[1] + part_aabb.max[1], 2) - cyl.x,
                        RDiv(part_aabb.min[3] + part_aabb.max[3], 2) - cyl.z,
                        RDiv(part_aabb.max[1] - part_aabb.min[1], 2),
                        RDiv(part_aabb.max[3] - part_aabb.min[3], 2))

WorldPartAabb(acc, idx, cyl, world_part) ==
    CylinderPart(acc, idx, cyl, world_part, obb_get_enclosing_aabb(world_part))

RECURSIVE CylinderParts(_, _, _, _, _)
CylinderParts(robot, cyl, sm, p, acc) ==
    IF p >= robot.submodel_part_count[sm + 1] THEN acc
    ELSE IF PartIndex(robot, sm, p) >= Len(acc.ps)
    THEN CylinderParts(robot, cyl, sm, p + 1, acc)
    ELSE CylinderParts(robot, cyl, sm, p + 1,
           WorldPartAabb(acc, PartIndex(robot, sm, p), cyl,
             transform_obb_to_world(acc.ps[PartIndex(robot, sm, p) + 1].local_obb, robot)))

\* the submodel loop of apply_cylinder_collision_response for one cylinder
RECURSIVE CylinderScan(_, _, _, _)
CylinderScan(robot, cyl, sm, acc) ==
    IF sm >= robot.submodel_count THEN acc
    ELSE IF ~obb_intersects_circle(
               transform_obb_to_world(robot.submodel_obbs[sm + 1], robot),
               cyl.x, cyl.z, cyl.radius)
    THEN CylinderScan(robot, cyl, sm + 1, acc)
    ELSE CylinderScan(robot, cyl, sm + 1,
           CylinderParts(robot, cyl, sm, 0,
             [ acc EXCEPT !.sm_state[sm + 1] = Max(@, COLLISION_SUBMODEL) ]))

\* main.cpp:1275-1283: momentum transfer
TransferVelocity(cyl, scan, robot_vel_into) ==
    IF robot_vel_into > 0
    THEN [ cyl EXCEPT
             !.vel_x = Mul(Mul(-scan.contact_nx, robot_vel_into), CYL_TRANSFER),
             !.vel_z = Mul(Mul(-scan.contact_nz, robot_vel_into), CYL_TRANSFER) ]
    ELSE cyl

\* main.cpp:1285-1290: position correction with tolerance
CorrectCylinder(cyl, scan) ==
    IF scan.max_penetration > COLLISION_TOLERANCE
    THEN [ cyl EXCEPT
             !.x = @ - Mul(scan.contact_nx, scan.max_penetration - COLLISION_TOLERANCE),
             !.z = @ - Mul(scan.contact_nz, scan.max_penetration - COLLISION_TOLERANCE) ]
    ELSE cyl

\* what one robot does to one cylinder (main.cpp:1273-1291)
PushCylinder(cyl, d, scan) ==
    IF scan.any_contact /\ scan.max_penetration > CYL_CONTACT_MIN
    THEN CorrectCylinder(
           TransferVelocity(cyl, scan,
             RDiv(d.vel_x * (-scan.contact_nx) + d.vel_z * (-scan.contact_nz), Scale)),
           scan)
    ELSE cyl

CylinderRespond(st, c, scan) ==
    [ robot |-> MarkSubmodels(st.robot, scan.sm_state),
      ps |-> scan.ps,
      cyls |-> [ st.cyls EXCEPT ![c] = PushCylinder(@, st.robot.drivetrain, scan) ] ]

\* the loop over the cylinders; st = [robot, ps, cyls]
RECURSIVE CylinderResponseLoop(_, _)
CylinderResponseLoop(st, c) ==
    IF c > Len(st.cyls) THEN st
    ELSE CylinderResponseLoop(
           CylinderRespond(st, c,
             CylinderScan(st.robot, st.cyls[c], 0,
               [ max_penetration |-> 0, contact_nx |-> 0, contact_nz |-> 0,
                 any_contact |-> FALSE,
                 sm_state |-> st.robot.submodel_collision_state,
                 ps |-> st.ps ])),
           c + 1)

\* returns [robot, ps, cyls]
apply_cylinder_collision_response(robot, ps, cyls) ==
    CylinderResponseLoop([ robot |-> robot, ps |-> ps, cyls |-> cyls ], 1)

\* an elastic exchange: twice the approaching velocity is taken off
CancelApproachElastic(cyl, sign, rel_vel, nx, nz, ratio) ==
    IF rel_vel < 0
    THEN [ cyl EXCEPT !.vel_x = @ + sign * 2 * Mul(Mul(rel_vel, nx), ratio),
                      !.vel_z = @ + sign * 2 * Mul(Mul(rel_vel, nz), ratio) ]
    ELSE cyl

\* main.cpp:1321-1329: cancel the approaching velocity of one cylinder;
\* sign = 1 for a, -1 for b
CancelApproach(cyl, sign, rel_vel, nx, nz, ratio) ==
    IF rel_vel < 0
    THEN [ cyl EXCEPT !.vel_x = @ + sign * Mul(Mul(rel_vel, nx), ratio),
                      !.vel_z = @ + sign * Mul(Mul(rel_vel, nz), ratio) ]
    ELSE cyl

\* main.cpp:1331-1338: position correction beyond the tolerance
CorrectOverlap(cyl, sign, overlap, nx, nz, ratio) ==
    IF overlap > CYLINDER_TOLERANCE
    THEN [ cyl EXCEPT
             !.x = @ - sign * Mul(Mul(nx, overlap - CYLINDER_TOLERANCE), ratio),
             !.z = @ - sign * Mul(Mul(nz, overlap - CYLINDER_TOLERANCE), ratio) ]
    ELSE cyl

PairRespond(a, b, overlap, nx, nz, a_ratio, b_ratio, rel_vel) ==
    << CorrectOverlap(CancelApproach(a, 1, rel_vel, nx, nz, a_ratio),
                      1, overlap, nx, nz, a_ratio),
       CorrectOverlap(CancelApproach(b, -1, rel_vel, nx, nz, b_ratio),
                      -1, overlap, nx, nz, b_ratio) >>

PairNormal(a, b, overlap, nx, nz) ==
    PairRespond(a, b, overlap, nx, nz,
                RDiv(b.mass * Scale, a.mass + b.mass),
                RDiv(a.mass * Scale, a.mass + b.mass),
                RDiv((b.vel_x - a.vel_x) * nx + (b.vel_z - a.vel_z) * nz, Scale))

\* nx = dx / dist, nz = dz / dist; the quotient is taken with two more
\* digits of the root, so that the normal has unit length to 1 / Scale
PairAt(a, b, dx, dz, dist) ==
    IF dist < a.radius + b.radius /\ dist > DIST_MIN
    THEN PairNormal(a, b, a.radius + b.radius - dist,
                    RDiv(dx * Scale * 100, sqrtf(10000 * (dx * dx + dz * dz))),
                    RDiv(dz * Scale * 100, sqrtf(10000 * (dx * dx + dz * dz))))
    ELSE << a, b >>

\* one pair (a, b) of the cylinder-cylinder loop (main.cpp:1304-1338)
CylinderPair(a, b) ==
    PairAt(a, b, b.x - a.x, b.z - a.z,
           sqrtf((b.x - a.x) * (b.x - a.x) + (b.z - a.z) * (b.z - a.z)))

StorePair(cyls, i, j, pair) == [ cyls EXCEPT ![i] = pair[1], ![j] = pair[2] ]

RECURSIVE CylinderPairs(_, _, _)
CylinderPairs(cyls, i, j) ==
    IF i > Len(cyls) THEN cyls
    ELSE IF j > Len(cyls) THEN CylinderPairs(cyls, i + 1, i + 2)
    ELSE CylinderPairs(StorePair(cyls, i, j, CylinderPair(cyls[i], cyls[j])), i, j + 1)

\* main.cpp:1346-1351: friction, then stop if very slow
DampCylinder(v) ==
    IF Abs(Mul(v, CYLINDER_FRICTION)) < CYL_DEADBAND THEN 0 ELSE Mul(v, CYLINDER_FRICTION)

\* main.cpp:1361-1375: the wall clamp of one coordinate; << position, velocity >>
ClampToWall(x, v, bound) ==
    IF x < -bound THEN << -bound, Mul(-v, WALL_BOUNCE) >>
    ELSE IF x > bound THEN << bound, Mul(-v, WALL_BOUNCE) >>
    ELSE << x, v >>

StoreCylinder(cyl, xs, zs) ==
    [ cyl EXCEPT !.x = xs[1], !.vel_x = xs[2], !.z = zs[1], !.vel_z = zs[2] ]

MoveCylinder(cyl, dt_sec, fhw, fhd, vx, vz) ==
    StoreCylinder(cyl,
      ClampToWall(cyl.x + RDiv(vx * dt_sec, Scale), vx, fhw - cyl.radius),
      ClampToWall(cyl.z + RDiv(vz * dt_sec, Scale), vz, fhd - cyl.radius))

\* friction, integration and the wall clamp of one cylinder (main.cpp:1343-1377)
CylinderIntegrate(cyl, dt_sec, fhw, fhd) ==
    MoveCylinder(cyl, dt_sec, fhw, fhd, DampCylinder(cyl.vel_x), DampCylinder(cyl.vel_z))

IntegrateAll(collided, dt_sec, fhw, fhd) ==
    [ c \in 1..Len(collided) |-> CylinderIntegrate(collided[c], dt_sec, fhw, fhd) ]

update_cylinder_physics(cyls, dt_sec, fhw, fhd) ==
    IntegrateAll(CylinderPairs(cyls, 1, 2), dt_sec, fhw, fhd)

-----------------------------------------------------------------------------
(* Collision detection for the debug view: main.cpp:765-976 *)

\* global indices of the parts of submodel sm that exist in the parts vector
SubmodelPartIndices(robot, sm, ps) ==
    { idx \in { robot.parts_start_index + robot.submodel_part_start[sm + 1] + p :
                p \in 0..(robot.submodel_part_count[sm + 1] - 1) } :
      idx < Len(ps) }

\* parts whose index is in idxs get the given collision state
MarkParts(ps, idxs, state) ==
    [ k \in 1..Len(ps) |->
        IF (k - 1) \in idxs THEN [ ps[k] EXCEPT !.collision_state = state ] ELSE ps[k] ]

\* the per-call reset of check_robot_robot_collision, then the submodels in
\* sms marked
ResetAndMark(robot, sms) ==
    [ robot EXCEPT !.submodel_collision_state =
        [ k \in 1..robot.submodel_count |->
            IF (k - 1) \in sms THEN COLLISION_SUBMODEL ELSE COLLISION_NONE ] ]

\* the submodels in sms raised to at least COLLISION_SUBMODEL
RaiseSubmodels(robot, sms) ==
    [ robot EXCEPT !.submodel_collision_state =
        [ k \in 1..robot.submodel_count |->
            IF (k - 1) \in sms THEN Max(@[k], COLLISION_SUBMODEL) ELSE @[k] ] ]

\* Level 1: the intersecting submodel pairs
SubmodelPairHits(robot_a, robot_b) ==
    { pr \in (0..(robot_a.submodel_count - 1)) \X (0..(robot_b.submodel_count - 1)) :
        obb_intersects_obb(
          transform_obb_to_world(robot_a.submodel_obbs[pr[1] + 1], robot_a),
          transform_obb_to_world(robot_b.submodel_obbs[pr[2] + 1], robot_b)) }

\* Level 2: the intersecting part pairs within the intersecting submodels
PartPairHits(robot_a, robot_b, ps, hits) ==
    { ip \in UNION { SubmodelPartIndices(robot_a, pr[1], ps)
                     \X SubmodelPartIndices(robot_b, pr[2], ps) : pr \in hits } :
        obb_intersects_obb(
          transform_obb_to_world(ps[ip[1] + 1].local_obb, robot_a),
          transform_obb_to_world(ps[ip[2] + 1].local_obb, robot_b)) }

RobotRobotMarked(robot_a, robot_b, ps, hits, part_hits) ==
    [ a  |-> ResetAndMark(robot_a, { pr[1] : pr \in hits }),
      b  |-> ResetAndMark(robot_b, { pr[2] : pr \in hits }),
      ps |-> MarkParts(ps, { ip[1] : ip \in part_hits } \cup { ip[2] : ip \in part_hits },
                       COLLISION_PART) ]

RobotRobotParts(robot_a, robot_b, ps, hits) ==
    RobotRobotMarked(robot_a, robot_b, ps, hits,
                     PartPairHits(robot_a, robot_b, ps, hits))

\* returns [a, b, ps]
check_robot_robot_collision(robot_a, robot_b, ps) ==
    RobotRobotParts(robot_a, robot_b, ps, SubmodelPairHits(robot_a, robot_b))

\* the (submodel, wall) pairs that intersect
SubmodelWallHits(robot, fhw, fhd) ==
    { sw \in (0..(robot.submodel_count - 1)) \X (1..4) :
        obb_intersects_aabb(
          transform_obb_to_world(robot.submodel_obbs[sw[1] + 1], robot),
          Walls(fhw, fhd)[sw[2]]) }

PartWallHits(robot, ps, fhw, fhd, hits) ==
    { idx \in 0..(Len(ps) - 1) :
        \E sw \in hits :
           /\ idx \in SubmodelPartIndices(robot, sw[1], ps)
           /\ obb_intersects_aabb(
                transform_obb_to_world(ps[idx + 1].local_obb, robot),
                Walls(fhw, fhd)[sw[2]]) }

RobotWallMarked(robot, ps, fhw, fhd, hits) ==
    [ robot |-> RaiseSubmodels(robot, { sw[1] : sw \in hits }),
      ps    |-> MarkParts(ps, PartWallHits(robot, ps, fhw, fhd, hits),
                          COLLISION_EXTERNAL) ]

\* returns [robot, ps]
check_robot_wall_collision(robot, ps, fhw, fhd) ==
    RobotWallMarked(robot, ps, fhw, fhd, SubmodelWallHits(robot, fhw, fhd))

\* the (submodel, cylinder) pairs that intersect
SubmodelCylinderHits(robot, cyls) ==
    { sc \in (0..(robot.submodel_count - 1)) \X (1..Len(cyls)) :
        obb_intersects_circle(
          transform_obb_to_world(robot.submodel_obbs[sc[1] + 1], robot),
          cyls[sc[2]].x, cyls[sc[2]].z, cyls[sc[2]].radius) }

PartCylinderHits(robot, ps, cyls, hits) ==
    { idx \in 0..(Len(ps) - 1) :
        \E sc \in hits :
           /\ idx \in SubmodelPartIndices(robot, sc[1], ps)
           /\ obb_intersects_circle(
                transform_obb_to_world(ps[idx + 1].local_obb, robot),
                cyls[sc[2]].x, cyls[sc[2]].z, cyls[sc[2]].radius) }

RobotCylinderMarked(robot, ps, cyls, hits) ==
    [ robot |-> RaiseSubmodels(robot, { sc[1] : sc \in hits }),
      ps    |-> MarkParts(ps, PartCylinderHits(robot, ps, cyls, hits),
                          COLLISION_EXTERNAL) ]

\* returns [robot, ps]
check_robot_cylinder_collision(robot, ps, cyls) ==
    RobotCylinderMarked(robot, ps, cyls, SubmodelCylinderHits(robot, cyls))

\* returns [robots, ps]
reset_collision_states(rs, ps) ==
    [ robots |-> [ r \in 1..Len(rs) |-> ResetAndMark(rs[r], {}) ],
      ps |-> [ k \in 1..Len(ps) |->
                 [ ps[k] EXCEPT !.collision_state = COLLISION_NONE ] ] ]

StorePairCheck(st, i, j, c) ==
    [ robots |-> [ st.robots EXCEPT ![i] = c.a, ![j] = c.b ], ps |-> c.ps ]

\* the loop over the pairs i < j (1-based here); st = [robots, ps]
RECURSIVE DetectPairs(_, _, _)
DetectPairs(st, i, j) ==
    IF i > Len(st.robots) THEN st
    ELSE IF j > Len(st.robots) THEN DetectPairs(st, i + 1, i + 2)
    ELSE DetectPairs(
           StorePairCheck(st, i, j,
             check_robot_robot_collision(st.robots[i], st.robots[j], st.ps)),
           i, j + 1)

StoreCheck(st, i, c) ==
    [ robots |-> [ st.robots EXCEPT ![i] = c.robot ], ps |-> c.ps ]

WallCheckAt(st, fhw, fhd, i) ==
    StoreCheck(st, i, check_robot_wall_collision(st.robots[i], st.ps, fhw, fhd))

CylinderCheckAt(st, cyls, i) ==
    StoreCheck(st, i, check_robot_cylinder_collision(st.robots[i], st.ps, cyls))

\* the loop over the robots: walls, then cylinders
RECURSIVE DetectExternal(_, _, _, _, _)
DetectExternal(st, cyls, fhw, fhd, i) ==
    IF i > Len(st.robots) THEN st
    ELSE DetectExternal(CylinderCheckAt(WallCheckAt(st, fhw, fhd, i), cyls, i),
                        cyls, fhw, fhd, i + 1)

run_hierarchical_collision_detection(rs, ps, cyls, fhw, fhd) ==
    DetectExternal(DetectPairs(reset_collision_states(rs, ps), 1, 2),
                   cyls, fhw, fhd, 1)

-----------------------------------------------------------------------------
(* ipc/python_bridge.cpp and ipc/subprocess.cpp (POSIX branch).             *)
(*                                                                         *)
(* Text is kept in run-length form: a sequence of runs, a run being n      *)
(* consecutive bytes of one of the lines of LINES starting at byte `from`, *)
(* or the newline byte.  Sizes are the real ones (4096, 1024), so the      *)
(* buffer arithmetic of python_bridge_update is the program's.             *)
(* MotorState.position and the tick timer of PythonBridge are left out:    *)
(* nothing in the bridge reads them.                                       *)

MAX_MOTORS == 12
MAX_PNEUMATICS == 12
MAX_MESSAGE_SIZE == 4096
TEMP_SIZE == 1024       \* python_bridge_update: char temp[1024]

Run(line, from, n) == [ line |-> line, from |-> from, n |-> n ]

NEWLINE == Run(0, 0, 1)

\* a JSON member the parser can find: bytes [from, to) of its line
Field(key, from, to, text, port, speed, flag, pump) ==
    [ key |-> key, from |-> from, to |-> to, text |-> text, port |-> port,
      speed |-> speed, flag |-> flag, pump |-> pump ]

\* a line the child can write: its length, whether its first byte is '{',
\* whether it is valid JSON, and its members in byte order
Line(len, brace, valid, fields) ==
    [ len |-> len, brace |-> brace, valid |-> valid, fields |-> fields ]

LINES ==
    << \* line 1: {"type":"ready","project":"demo"}
        Line(33, TRUE, TRUE,
             << Field("type", 1, 15, "ready", 0, 0, FALSE, FALSE),
                Field("project", 16, 32, "demo", 0, 0, FALSE, FALSE) >>),
       \* line 2: {"type":"state","motors":{"1":{"speed":50,"spinning":true,"position":0.0}},"pneumatics":{}}
        Line(91, TRUE, TRUE,
             << Field("type", 1, 15, "state", 0, 0, FALSE, FALSE),
                Field("motors", 16, 26, "", 0, 0, FALSE, FALSE),
                Field("motor", 26, 73, "", 1, 50, TRUE, FALSE),
                Field("motors_end", 73, 74, "", 0, 0, FALSE, FALSE),
                Field("pneumatics", 75, 89, "", 0, 0, FALSE, FALSE),
                Field("pneumatics_end", 89, 90, "", 0, 0, FALSE, FALSE) >>),
       \* line 3: {"type":"state","motors":{"1":{"speed":-20,"spinning":true,"position":1.5},"6":{"speed":75,"spinning":true,"position":0.0}},"pneumatics":{"3":{"extended":true,"pump":true}}}
        Line(173, TRUE, TRUE,
             << Field("type", 1, 15, "state", 0, 0, FALSE, FALSE),
                Field("motors", 16, 26, "", 0, 0, FALSE, FALSE),
                Field("motor", 26, 74, "", 1, -20, TRUE, FALSE),
                Field("motor", 74, 122, "", 6, 75, TRUE, FALSE),
                Field("motors_end", 122, 123, "", 0, 0, FALSE, FALSE),
                Field("pneumatics", 124, 138, "", 0, 0, FALSE, FALSE),
                Field("pneumatic", 138, 171, "", 3, 0, TRUE, TRUE),
                Field("pneumatics_end", 171, 172, "", 0, 0, FALSE, FALSE) >>),
       \* line 4: {"type":"status","message":"running"}
        Line(37, TRUE, TRUE,
             << Field("type", 1, 16, "status", 0, 0, FALSE, FALSE),
                Field("message", 17, 36, "running", 0, 0, FALSE, FALSE) >>),
       \* line 5: {"type":"shutdown"}
        Line(19, TRUE, TRUE,
             << Field("type", 1, 18, "shutdown", 0, 0, FALSE, FALSE) >>),
       \* line 6: Traceback (most recent call last):
        Line(34, FALSE, FALSE,
             <<  >>),
       \* line 7: {"type":"log","text":"hello"}
        Line(29, TRUE, TRUE,
             << Field("type", 1, 13, "log", 0, 0, FALSE, FALSE) >>),
       \* line 8: {"type":"state","motors":{"2":{"speed":10,"spinning":true,"position":0.0}},"pneumatics":{},"debug":"xxxxxxxxxx...(padding)..."}
        Line(4000, TRUE, TRUE,
             << Field("type", 1, 15, "state", 0, 0, FALSE, FALSE),
                Field("motors", 16, 26, "", 0, 0, FALSE, FALSE),
                Field("motor", 26, 73, "", 2, 10, TRUE, FALSE),
                Field("motors_end", 73, 74, "", 0, 0, FALSE, FALSE),
                Field("pneumatics", 75, 89, "", 0, 0, FALSE, FALSE),
                Field("pneumatics_end", 89, 90, "", 0, 0, FALSE, FALSE) >>),
       \* line 9: {"type":"shutdown"
        Line(18, TRUE, FALSE,
             << Field("type", 1, 18, "shutdown", 0, 0, FALSE, FALSE) >>),
       \* line 10: {"type":"state","motors":{"1":{"speed":50
        Line(41, TRUE, FALSE,
             << Field("type", 1, 15, "state", 0, 0, FALSE, FALSE),
                Field("motors", 16, 26, "", 0, 0, FALSE, FALSE) >>),
       \* line 11: {oops
        Line(5, TRUE, FALSE,
             <<  >>),
       \* line 12: {"type":"error","message":"boom"}
        Line(33, TRUE, TRUE,
             << Field("type", 1, 15, "error", 0, 0, FALSE, FALSE),
                Field("message", 16, 32, "boom", 0, 0, FALSE, FALSE) >>) >>

\* strlen
RECURSIVE Bytes(_)
Bytes(text) ==
    IF text = << >> THEN 0 ELSE Head(text).n + Bytes(Tail(text))

AppendRun(text, run) ==
    IF run.n = 0 THEN text
    ELSE IF /\ text # << >>
            /\ run.line # 0
            /\ text[Len(text)].line = run.line
            /\ text[Len(text)].from + text[Len(text)].n = run.from
         THEN [ text EXCEPT ![Len(text)].n = @ + run.n ]
         ELSE Append(text, run)

\* memcpy of b behind a
RECURSIVE Join(_, _)
Join(a, b) ==
    IF b = << >> THEN a ELSE Join(AppendRun(a, Head(b)), Tail(b))

\* the first k bytes of text
RECURSIVE Take(_, _)
Take(text, k) ==
    IF k <= 0 \/ text = << >> THEN << >>
    ELSE IF Head(text).n <= k
         THEN << Head(text) >> \o Take(Tail(text), k - Head(text).n)
         ELSE << [ Head(text) EXCEPT !.n = k ] >>

\* text without its first k bytes
RECURSIVE Drop(_, _)
Drop(text, k) ==
    IF k <= 0 \/ text = << >> THEN text
    ELSE IF Head(text).n <= k
         THEN Drop(Tail(text), k - Head(text).n)
         ELSE << [ Head(text) EXCEPT !.from = @ + k, !.n = @ - k ] >>
              \o Tail(text)

\* the bytes the child writes for the lines ids, each ended by a newline
RECURSIVE Written(_)
Written(ids) ==
    IF ids = << >> THEN << >>
    ELSE << Run(Head(ids), 0, LINES[Head(ids)].len), NEWLINE >>
         \o Written(Tail(ids))

\* strchr(line_start, '\n'): the index of the first newline run, 0 if none
NewlineAt(text) ==
    IF \E i \in 1..Len(text) : text[i] = NEWLINE
    THEN CHOOSE i \in 1..Len(text) :
            /\ text[i] = NEWLINE
            /\ \A j \in 1..(i - 1) : text[j] # NEWLINE
    ELSE 0

\* line_start[0] == '{'
StartsWithBrace(json) ==
    /\ json # << >>
    /\ json[1].from = 0
    /\ LINES[json[1].line].brace

\* the members that lie whole inside the text json, in byte order
RECURSIVE FieldsIn(_)
FieldsIn(json) ==
    IF json = << >> THEN << >>
    ELSE LET r == Head(json)
             Inside(f) == r.from <= f.from /\ f.to <= r.from + r.n
         IN  SelectSeq(LINES[r.line].fields, Inside) \o FieldsIn(Tail(json))

\* the index of the first member of fs after index from whose key is in keys,
\* Len(fs) + 1 if there is none
FirstKey(fs, keys, from) ==
    IF \E i \in (from + 1)..Len(fs) : fs[i].key \in keys
    THEN CHOOSE i \in (from + 1)..Len(fs) :
            /\ fs[i].key \in keys
            /\ \A j \in (from + 1)..(i - 1) : fs[j].key \notin keys
    ELSE Len(fs) + 1

\* the text of the first member named key among fs, "" if there is none
StringIn(fs, key) ==
    IF FirstKey(fs, { key }, 0) > Len(fs) THEN ""
    ELSE fs[FirstKey(fs, { key }, 0)].text

\* python_bridge.cpp:19-23 and 61-79: the first "key": of the text
json_get_string(json, key) == StringIn(FieldsIn(json), key)

IsPort(f) == f.key \in { "motor", "pneumatic" }

\* the "port":{...} patterns among fs between index start and the next
\* closing brace at the level of the object
PortsFrom(fs, start) ==
    IF start > Len(fs) THEN << >>
    ELSE SelectSeq(SubSeq(fs, start + 1,
                          FirstKey(fs, { "motors_end", "pneumatics_end" }, start) - 1),
                   IsPort)

PortsIn(fs, key) == PortsFrom(fs, FirstKey(fs, { key }, 0))

\* the "port":{...} patterns the scan of parse_motors / parse_pneumatics
\* meets between the opening brace of the object key and the next closing
\* brace at its level
PortObjects(json, key) == PortsIn(FieldsIn(json), key)

FirstN(s, n) == SubSeq(s, 1, IF Len(s) < n THEN Len(s) ELSE n)

\* python_bridge.cpp:113-118: the MotorState of each pattern found
MotorStates(found) ==
    [ i \in 1..Len(found) |->
        [ port |-> found[i].port,
          speed |-> IF found[i].key = "motor" THEN found[i].speed ELSE 0,
          spinning |-> found[i].key = "motor" /\ found[i].flag ] ]

\* python_bridge.cpp:82-134
parse_motors(json, state) ==
    [ state EXCEPT !.motors =
        MotorStates(FirstN(PortObjects(json, "motors"), MAX_MOTORS)) ]

\* python_bridge.cpp:166-170: the PneumaticState of each pattern found
PneumaticStates(found) ==
    [ i \in 1..Len(found) |->
        [ port |-> found[i].port,
          extended |-> found[i].key = "pneumatic" /\ found[i].flag,
          pump_on |-> found[i].key = "pneumatic" /\ found[i].pump ] ]

\* python_bridge.cpp:137-181
parse_pneumatics(json, state) ==
    [ state EXCEPT !.pneumatics =
        PneumaticStates(FirstN(PortObjects(json, "pneumatics"), MAX_PNEUMATICS)) ]

\* python_bridge.cpp:187-208: the branches on the type of the message
Dispatch(bridge, json, type) ==
    CASE type = "ready" ->
            [ bridge EXCEPT !.project_name = json_get_string(json, "project"),
                            !.robot_ready = TRUE ]
      [] type = "state" ->
            [ bridge EXCEPT !.state = parse_pneumatics(json, parse_motors(json, @)) ]
      [] type \in { "status", "error" } ->
            [ bridge EXCEPT !.state[type] = json_get_string(json, "message") ]
      [] type = "shutdown" ->
            [ bridge EXCEPT !.connected = FALSE ]
      [] OTHER -> bridge

\* python_bridge.cpp:184-209
process_message(bridge, json) ==
    Dispatch(bridge, json, json_get_string(json, "type"))

\* memset(proc, 0, sizeof(Subprocess))
ZeroProcess == [ running |-> FALSE, pid |-> 0, stdin_fd |-> 0, stdout_fd |-> 0 ]

\* memset(bridge, 0, sizeof(PythonBridge))
ZeroBridge ==
    [ process |-> ZeroProcess, connected |-> FALSE, robot_ready |-> FALSE,
      project_name |-> "",
      state |-> [ motors |-> << >>, pneumatics |-> << >>, ready |-> FALSE,
                  status |-> "", error |-> "" ],
      read_buffer |-> << >>, read_pos |-> 0 ]

\* what the accessors of python_bridge.h show of a bridge
Visible(bridge) ==
    [ connected |-> bridge.connected, robot_ready |-> bridge.robot_ready,
      project_name |-> bridge.project_name, state |-> bridge.state ]

\* The simulator process and its child as the kernel sees them:
\*   child        "none", "running", "zombie" (exited, not waited for), "reaped"
\*   fds          the pipe descriptors open in the simulator
\*   stdout_pipe  bytes the child wrote that the simulator has not read
\*   stdin_pipe   messages the simulator wrote to the child
\*   trace        the system calls the simulator made, in order
\*   alive        FALSE once the simulator was ended by SIGPIPE
World(bridge, child, fds, stdout_pipe) ==
    [ bridge |-> bridge, child |-> child, fds |-> fds, stdout_pipe |-> stdout_pipe,
      stdin_pipe |-> << >>, trace |-> << >>, alive |-> TRUE ]

Traced(w, call) == [ w EXCEPT !.trace = Append(@, call) ]

\* subprocess.cpp:188-254; ok = pipe, pipe and fork succeeded
subprocess_spawn(w, ok, written) ==
    IF ok
    THEN [ Traced(w, "fork") EXCEPT
             !.bridge.process = [ running |-> TRUE, pid |-> 100,
                                  stdin_fd |-> 4, stdout_fd |-> 5 ],
             !.child = "running", !.fds = { 4, 5 }, !.stdout_pipe = written ]
    ELSE [ w EXCEPT !.bridge.process = ZeroProcess ]

\* subprocess.cpp:256-265: write(2) on a pipe whose reader is gone raises
\* SIGPIPE, for which the program installs no handler
subprocess_write_str(w, str) ==
    IF ~w.bridge.process.running THEN w
    ELSE IF w.child = "running"
         THEN [ Traced(w, "write") EXCEPT !.stdin_pipe = Append(@, str) ]
         ELSE [ Traced(w, "write") EXCEPT !.alive = FALSE ]

\* subprocess.cpp:267-278 with the kernel handing over k bytes
subprocess_read(w, k) ==
    IF ~w.bridge.process.running
    THEN [ w |-> w, bytes |-> -1, data |-> << >> ]
    ELSE [ w |-> [ Traced(w, "read") EXCEPT !.stdout_pipe = Drop(@, k) ],
           bytes |-> k, data |-> Take(w.stdout_pipe, k) ]

\* subprocess.cpp:316-326
subprocess_is_running(w) ==
    IF ~w.bridge.process.running THEN [ w |-> w, result |-> FALSE ]
    ELSE IF w.child = "zombie"
         THEN [ w |-> [ Traced(w, "waitpid") EXCEPT
                          !.child = "reaped", !.bridge.process.running = FALSE ],
                result |-> FALSE ]
         ELSE [ w |-> Traced(w, "waitpid"), result |-> TRUE ]

\* subprocess_terminate without the waitpid: the killed child stays a zombie
subprocess_terminateNoWait(w) ==
    IF w.bridge.process.running
    THEN [ w EXCEPT !.trace = @ \o << "SIGTERM", "usleep", "SIGKILL" >>,
                    !.child = "zombie", !.bridge.process.running = FALSE ]
    ELSE w

\* subprocess.cpp:328-336
subprocess_terminate(w) ==
    IF w.bridge.process.running
    THEN [ w EXCEPT !.trace = @ \o << "SIGTERM", "usleep", "SIGKILL", "waitpid" >>,
                    !.child = "reaped", !.bridge.process.running = FALSE ]
    ELSE w

CloseFd(w, fd) ==
    IF fd > 0 THEN [ Traced(w, "close") EXCEPT !.fds = @ \ { fd } ] ELSE w

\* subprocess.cpp:338-343
subprocess_destroy(w) ==
    LET w1 == subprocess_terminate(w)
        w2 == CloseFd(w1, w1.bridge.process.stdin_fd)
        w3 == CloseFd(w2, w2.bridge.process.stdout_fd)
    IN  [ w3 EXCEPT !.bridge.process = ZeroProcess ]

\* python_bridge.cpp:211-282
python_bridge_init(ok, written) ==
    LET w == subprocess_spawn(World(ZeroBridge, "none", { }, << >>), ok, written)
    IN  IF ok THEN [ w EXCEPT !.bridge.connected = TRUE ] ELSE w

\* python_bridge.cpp:284-293
python_bridge_send_gamepad(w) ==
    IF ~w.bridge.connected THEN w ELSE subprocess_write_str(w, "gamepad")

\* python_bridge.cpp:295-301
python_bridge_send_tick(w) ==
    IF ~w.bridge.connected THEN w ELSE subprocess_write_str(w, "tick")

\* what one line taken out of the buffer did: the bridge before and after it
Seen(json, before, after) ==
    [ json |-> json, handed |-> StartsWithBrace(json),
      before |-> Visible(before), after |-> Visible(after) ]

\* python_bridge.cpp:334-337
HandleLine(bridge, json) ==
    IF StartsWithBrace(json) THEN process_message(bridge, json) ELSE bridge

\* python_bridge.cpp:329-342: the loop over the complete lines of the buffer;
\* seen lists every line taken out, with the bridge before and after it
RECURSIVE ProcessLines(_, _, _)
RECURSIVE LineEndingAt(_, _, _, _)
RECURSIVE LineHandled(_, _, _, _, _)
ProcessLines(bridge, text, seen) == LineEndingAt(bridge, text, seen, NewlineAt(text))

LineEndingAt(bridge, text, seen, i) ==
    IF i = 0 THEN [ bridge |-> bridge, rest |-> text, seen |-> seen ]
    ELSE LineHandled(bridge, SubSeq(text, i + 1, Len(text)), seen,
                     SubSeq(text, 1, i - 1), HandleLine(bridge, SubSeq(text, 1, i - 1)))

LineHandled(bridge, rest, seen, json, next) ==
    ProcessLines(next, rest, Append(seen, Seen(json, bridge, next)))

\* python_bridge.cpp:319-327: the bytes join the buffer only if they fit
AppendToBuffer(bridge, bytes, data) ==
    IF bytes > 0 /\ bytes < MAX_MESSAGE_SIZE - bridge.read_pos - 1
    THEN [ bridge EXCEPT !.read_buffer = Join(@, data), !.read_pos = @ + bytes ]
    ELSE bridge

IsHanded(s) == s.handed

\* the return value of python_bridge_update with the world it leaves, the
\* lines it took out of the buffer and the bytes it read
Updated(w, result, seen, data) ==
    [ w |-> w, result |-> result, seen |-> seen, data |-> data ]

\* python_bridge.cpp:344-352: what is left moves to the start of the buffer
UpdateDone(got, done) ==
    Updated([ got.w EXCEPT !.bridge = [ done.bridge EXCEPT
                                          !.read_buffer = done.rest,
                                          !.read_pos = Bytes(done.rest) ] ],
            SelectSeq(done.seen, IsHanded) # << >>, done.seen, got.data)

ProcessBuffer(bridge) == ProcessLines(bridge, bridge.read_buffer, << >>)

\* python_bridge.cpp:314-342
UpdateRead(got) ==
    UpdateDone(got, ProcessBuffer(AppendToBuffer(got.w.bridge, got.bytes, got.data)))

\* python_bridge.cpp:306-316
UpdateRunning(alive, k) ==
    IF ~alive.result
    THEN Updated([ alive.w EXCEPT !.bridge.connected = FALSE ], FALSE, << >>, << >>)
    ELSE UpdateRead(subprocess_read(alive.w, k))

\* python_bridge.cpp:303-353 with the kernel handing over k bytes
python_bridge_update(w, k) ==
    IF ~w.bridge.connected THEN Updated(w, FALSE, << >>, << >>)
    ELSE UpdateRunning(subprocess_is_running(w), k)

\* python_bridge.cpp:363-378
python_bridge_destroy(w) ==
    LET told == IF w.bridge.connected
                THEN Traced(subprocess_write_str(w, "shutdown"), "usleep")
                ELSE w
    IN  IF told.alive
        THEN [ subprocess_destroy(told) EXCEPT !.bridge = ZeroBridge ]
        ELSE told

\* the bridge, the kernel's side of it, and the history of the calls:
\*   before    the world before the last call
\*   last      the last call
\*   returned  what python_bridge_update returned, if it was the last call
\*   seen      the lines the last call took out of the buffer
\*   consumed  every byte subprocess_read has handed over
\*   handed    every text process_message was called with
Ipc(w, before, last, returned, seen, consumed, handed) ==
    [ w |-> w, before |-> before, last |-> last, returned |-> returned,
      seen |-> seen, consumed |-> consumed, handed |-> handed ]

\* main() creates no bridge
NoBridge ==
    Ipc(World(ZeroBridge, "none", { }, << >>), World(ZeroBridge, "none", { }, << >>),
        "none", FALSE, << >>, << >>, << >>)


-----------------------------------------------------------------------------
(* render/mpd_loader.cpp, and the mesh loop of main.cpp:1590-1681.          *)
(*                                                                         *)
(* A name is [stem, upper, ext, ext_upper]: the letters of the stem and of *)
(* the extension in lower case, and the positions in each that hold an     *)
(* upper-case letter.  A name has at most one dot; ext = "" means none.    *)

MPD_MAX_PARTS == 1024
MPD_MAX_SUBMODELS == 64
MAX_DEPTH == 20         \* mpd_loader.cpp:206
DEFAULT_COLOR == 72     \* mpd_loader.cpp:397
MAIN_COLOR == 16        \* mpd_loader.cpp:236 and 268

Name(stem, upper, ext, ext_upper) ==
    [ stem |-> stem, upper |-> upper, ext |-> ext, ext_upper |-> ext_upper ]

Lower(stem, ext) == Name(stem, { }, ext, { })

EMPTY_NAME == Lower("", "")

\* <ctype.h> tolower over every character of the name
tolower(name) == [ name EXCEPT !.upper = { }, !.ext_upper = { } ]

\* mpd_loader.cpp:190-194
is_submodel_ref(name) == name.ext \in { "ldr", "mpd" }

\* main.cpp:399-408: ".dat" or ".DAT" becomes ".glb", any other name stays
part_name_to_glb(part_name) ==
    IF part_name.ext = "dat" /\ part_name.ext_upper \in { { }, { 1, 2, 3 } }
    THEN [ part_name EXCEPT !.ext = "glb", !.ext_upper = { } ]
    ELSE part_name

\* the lines of a file.  FileLine is `0 FILE name`, Type1 a type 1 line with
\* its 14 fields, Meta any other line that starts with 0, Short a type 1
\* line with fewer than 14 fields
FileLine(name) == [ kind |-> "FILE", name |-> name ]

Type1(color, x, y, z, rot, name) ==
    [ kind |-> "1", fields |-> 14, color_code |-> color, pos |-> << x, y, z >>,
      rotation |-> rot, name |-> name ]

Meta == [ kind |-> "0" ]

Short == [ kind |-> "1", fields |-> 9 ]

EmptySubmodel == [ parts |-> << >>, submodels |-> << >> ]

\* mpd_loader.cpp:300-303
ParseStart ==
    [ submodels |-> << >>, main_model |-> EMPTY_NAME, current_model |-> EMPTY_NAME,
      current |-> FALSE ]

\* mpd_loader.cpp:315-336: a FILE marker opens (or empties) a section
ParseFile(st, name) ==
    [ submodels |-> (name :> EmptySubmodel) @@ st.submodels,
      main_model |-> IF st.main_model = EMPTY_NAME THEN name ELSE st.main_model,
      current_model |-> name,
      current |-> TRUE ]

\* mpd_loader.cpp:351-374: a reference joins the references of the current
\* section, any other placement its parts
ParsePlacement(st, line) ==
    IF is_submodel_ref(line.name)
    THEN [ st EXCEPT !.submodels[st.current_model].submodels =
             Append(@, [ name |-> line.name, color_code |-> line.color_code,
                         pos |-> line.pos, rotation |-> line.rotation ]) ]
    ELSE [ st EXCEPT !.submodels[st.current_model].parts =
             Append(@, [ part_name |-> line.name, color_code |-> line.color_code,
                         pos |-> line.pos, rotation |-> line.rotation ]) ]

\* mpd_loader.cpp:306-376: the body of the loop over the lines
ParseLine(st, line) ==
    IF line.kind = "FILE" THEN ParseFile(st, line.name)
    ELSE IF ~st.current \/ line.kind = "0" \/ line.fields < 14 THEN st
    ELSE ParsePlacement(st, line)

\* mpd_loader.cpp:155-165
matrix_multiply(a, b) == mat3_multiply(a, b)

\* mpd_loader.cpp:168-172
transform_point(rot, p) == mat3_transform_point(rot, p)

\* memset(out_doc, 0, sizeof(MpdDocument))
ZeroDocument == [ name |-> EMPTY_NAME, parts |-> << >>, submodels |-> << >> ]

\* one activation of expand_submodel: its arguments, the references of the
\* section it found, the index i of the reference it is at and the locals
\* parts_before and submodel_idx of that iteration.  path (the references
\* followed from the main model) is history.
Call(name, pos, rot, color, depth, current_submodel_idx, path) ==
    [ name |-> name, pos |-> pos, parent_rot |-> rot, parent_color |-> color,
      depth |-> depth, current_submodel_idx |-> current_submodel_idx,
      at |-> "entry", refs |-> << >>, i |-> 0, parts_before |-> 0,
      submodel_idx |-> -1, path |-> path ]

\* mpd_loader.cpp:211-220: the key of the section the name resolves to
Resolve(submodels, name) ==
    IF name \in DOMAIN submodels THEN [ found |-> TRUE, key |-> name ]
    ELSE IF tolower(name) \in DOMAIN submodels
    THEN [ found |-> TRUE, key |-> tolower(name) ]
    ELSE [ found |-> FALSE, key |-> name ]

InheritColor(color_code, parent_color) ==
    IF color_code = MAIN_COLOR THEN parent_color ELSE color_code

\* mpd_loader.cpp:231-251: the MpdPart emitted for a direct part
OutPart(part, call) ==
    [ part_name |-> part.part_name,
      color_code |-> InheritColor(part.color_code, call.parent_color),
      pos |-> Vec3Add(call.pos, transform_point(call.parent_rot, part.pos)),
      rotation |-> matrix_multiply(call.parent_rot, part.rotation),
      submodel_index |-> call.current_submodel_idx ]

\* how many of n direct parts fit below MPD_MAX_PARTS
Fitting(doc, n) == Min(n, MPD_MAX_PARTS - Len(doc.parts))

\* mpd_loader.cpp:225-252: the loop over the direct parts of the section
EmitParts(doc, ps, call) ==
    [ doc EXCEPT !.parts = @ \o [ k \in 1..Fitting(doc, Len(ps)) |-> OutPart(ps[k], call) ] ]

\* the mutation of CallOf that hands down the rotation of the reference
\* alone
CallOfLocalRotation(ref, call, submodel_idx) ==
    Call(ref.name,
         Vec3Add(call.pos, transform_point(call.parent_rot, ref.pos)),
         ref.rotation,
         InheritColor(ref.color_code, call.parent_color),
         call.depth + 1, submodel_idx,
         Append(call.path, [ name |-> call.name, i |-> call.i ]))

\* mpd_loader.cpp:256-268 and 282: the activation a reference starts
CallOf(ref, call, submodel_idx) ==
    Call(ref.name,
         Vec3Add(call.pos, transform_point(call.parent_rot, ref.pos)),
         matrix_multiply(call.parent_rot, ref.rotation),
         InheritColor(ref.color_code, call.parent_color),
         call.depth + 1, submodel_idx,
         Append(call.path, [ name |-> call.name, i |-> call.i ]))

\* mpd_loader.cpp:270-279: at depth 0 a reference opens a top-level submodel
\* while there is room for one
OpensSubmodel(doc, call) == call.depth = 0 /\ Len(doc.submodels) < MPD_MAX_SUBMODELS

SubmodelIdx(doc, call) ==
    IF OpensSubmodel(doc, call) THEN Len(doc.submodels) ELSE call.current_submodel_idx

OpenSubmodel(doc, call, ref) ==
    IF OpensSubmodel(doc, call)
    THEN [ doc EXCEPT !.submodels =
             Append(@, [ name |-> ref.name, part_start |-> Len(doc.parts),
                         part_count |-> 0 ]) ]
    ELSE doc

\* the mutation of ClosePartCount that stores the running total
ClosePartCountTotal(doc, call) ==
    IF call.depth = 0 /\ call.submodel_idx >= 0 /\ call.submodel_idx < Len(doc.submodels)
    THEN [ doc EXCEPT !.submodels[call.submodel_idx + 1].part_count = Len(doc.parts) ]
    ELSE doc

\* mpd_loader.cpp:284-287: the part count of a top-level submodel
ClosePartCount(doc, call) ==
    IF call.depth = 0 /\ call.submodel_idx >= 0 /\ call.submodel_idx < Len(doc.submodels)
    THEN [ doc EXCEPT !.submodels[call.submodel_idx + 1].part_count =
             Len(doc.parts) - call.parts_before ]
    ELSE doc

\* a Mesh*, nullptr included
NULLPTR == [ null |-> TRUE, name |-> EMPTY_NAME, vertex_count |-> 0 ]

\* glb_loader.cpp:169 and 480: glb_load succeeds only on a file whose
\* POSITION accessor counts at least one vertex
glb_load(files, glb_name) ==
    IF glb_name \in DOMAIN files /\ files[glb_name] # 0
    THEN [ ok |-> TRUE, vertex_count |-> files[glb_name] ]
    ELSE [ ok |-> FALSE, vertex_count |-> 0 ]

\* mesh.cpp:95-101: the only failure of mesh_create
mesh_create(mesh_data) == mesh_data.vertex_count # 0

\* main.cpp:1608-1615: the mesh a loaded file gives
MeshOf(glb_name, mesh_data) ==
    IF mesh_create(mesh_data)
    THEN [ null |-> FALSE, name |-> glb_name, vertex_count |-> mesh_data.vertex_count ]
    ELSE NULLPTR

\* the mutation of CacheLoaded that forgets a file that was not found
CacheLoadedForgetful(mesh_cache, glb_name, mesh_data) ==
    IF mesh_data.ok /\ mesh_create(mesh_data)
    THEN (glb_name :> MeshOf(glb_name, mesh_data)) @@ mesh_cache
    ELSE mesh_cache

\* main.cpp:1608-1620: what a load attempt leaves in the cache
CacheLoaded(mesh_cache, glb_name, mesh_data) ==
    IF mesh_data.ok
    THEN IF mesh_create(mesh_data)
         THEN (glb_name :> MeshOf(glb_name, mesh_data)) @@ mesh_cache
         ELSE mesh_cache
    ELSE (glb_name :> NULLPTR) @@ mesh_cache

\* main.cpp:1597-1621: the mesh of a part whose key is not in the cache
Loaded(glb_name, mesh_data) ==
    IF mesh_data.ok THEN MeshOf(glb_name, mesh_data) ELSE NULLPTR

\* main.cpp:1623-1658
PartInstance(mesh, part, current_robot_index) ==
    [ mesh |-> mesh, part_name |-> part.part_name, position |-> part.pos,
      rotation |-> part.rotation, robot_index |-> current_robot_index,
      wheel_index |-> -1, submodel_index |-> part.submodel_index ]

PushPart(ps, mesh, part, current_robot_index) ==
    IF mesh.null THEN ps ELSE Append(ps, PartInstance(mesh, part, current_robot_index))

\* main.cpp:1661-1681: the submodel ranges copied from the document
SubmodelRanges(doc, robot_part_start, parts_size) ==
    [ submodel_count |-> Len(doc.submodels),
      parts_start_index |-> robot_part_start,
      parts_count |-> parts_size - robot_part_start,
      submodel_part_start |-> [ sm \in 1..Len(doc.submodels) |-> doc.submodels[sm].part_start ],
      submodel_part_count |-> [ sm \in 1..Len(doc.submodels) |-> doc.submodels[sm].part_count ] ]

\* no loader has run
NoLoad ==
    [ pc |-> "none", scene |-> << >>, robot_idx |-> 0, line |-> 0,
      parse |-> ParseStart, submodels |-> << >>,
      stack |-> << >>, doc |-> ZeroDocument, paths |-> << >>,
      unresolved |-> { }, deepest |-> 0, refused |-> 0, returned |-> << >>,
      i |-> 0, robot_part_start |-> 0, mesh_cache |-> << >>, events |-> << >>,
      parts |-> << >>, robots |-> << >> ]

-----------------------------------------------------------------------------
(* The inputs: meshes, assembly documents, robot definitions, scenes *)

MaxFrames == 2          \* frames the main loop is followed for

\* glb_load: bounds of the meshes found on disk (name -> bounds)
MESHES ==
    [ n \in { "plate.dat", "beam.dat" } |->
        IF n = "plate.dat"
        THEN [ min_bounds |-> << -300, -50, -400 >>, max_bounds |-> << 300, 50, 400 >> ]
        ELSE [ min_bounds |-> << -50, -50, -300 >>, max_bounds |-> << 50, 50, 300 >> ] ]

ROT_Y45 == << 707, 0, 707,  0, 1000, 0,  -707, 0, 707 >>

DocPart(name, x, y, z, rot, sm) ==
    [ part_name |-> name, x |-> x, y |-> y, z |-> z, rotation |-> rot,
      submodel_index |-> sm ]

\* mpd_load: the flattened documents (file -> document).  Each submodel is a
\* reference of the main model; lengths in LDU.
DOCS ==
    [ f \in { "box.mpd", "arm.mpd", "diag.mpd" } |->
        IF f = "box.mpd"
        THEN [ parts |-> << DocPart("plate.dat", 0, 0, 0, IDENTITY3, 0) >>,
               submodels |-> << [ name |-> "chassis.ldr", part_start |-> 0,
                                  part_count |-> 1 ] >> ]
        ELSE IF f = "arm.mpd"
        THEN [ parts |-> << DocPart("plate.dat", 0, 0, 0, IDENTITY3, 0),
                            DocPart("beam.dat", 0, 0, -350, IDENTITY3, 1) >>,
               submodels |-> << [ name |-> "chassis.ldr", part_start |-> 0,
                                  part_count |-> 1 ],
                                [ name |-> "arm.ldr", part_start |-> 1,
                                  part_count |-> 1 ] >> ]
        ELSE [ parts |-> << DocPart("beam.dat", 0, 0, 0, ROT_Y45, 0) >>,
               submodels |-> << [ name |-> "brace.ldr", part_start |-> 0,
                                  part_count |-> 1 ] >> ] ]

Wheel(left) ==
    [ is_left |-> left, outer_diameter_mm |-> 508,
      spin_axis |-> << (IF left THEN -Scale ELSE Scale), 0, 0 >>,
      part_numbers |-> { "wheel" } ]

\* robotdef_load: the robot definitions found next to the documents
ROBOTDEFS ==
    [ f \in { "box.mpd", "arm.mpd" } |->
        [ rotation_center |-> << 0, 0, 0 >>,
          rotation_axis |-> << 0, Scale, 0 >>, track_width |-> 200,
          wheels |-> << Wheel(TRUE), Wheel(FALSE) >> ] ]

\* what an unassigned RobotInstance / OBB field may hold
UNINIT ==
    { [ rotation |-> IDENTITY3, wheel_count |-> 0, wheels |-> << >> ],
      [ rotation |-> << 0, 0, 0, 0, 0, 0, 0, 0, 0 >>, wheel_count |-> 1,
        wheels |-> << [ is_left |-> FALSE, diameter_mm |-> 0,
                        spin_axis |-> << 0, 0, 0 >>, part_numbers |-> {},
                        spin_angle |-> 0 ] >> ] }

\* scene.cpp:174-196: a placement whose lines include `iqpython: value`;
\* has_program is set whatever the value is
SceneRobotKey(file, x, z, rotation_deg, value) ==
    [ mpd_file |-> file, x |-> x, y |-> 0, z |-> z,
      rotation_y |-> rotation_deg, iqpython_file |-> value, has_program |-> TRUE ]

\* scene.cpp:174-196: a placement with the program "drive.py" or, if
\* has_program is FALSE, without an iqpython line (memset leaves "" and false)
SceneRobot(file, x, z, rotation_deg, has_program) ==
    IF has_program THEN SceneRobotKey(file, x, z, rotation_deg, "drive.py")
    ELSE [ mpd_file |-> file, x |-> x, y |-> 0, z |-> z,
           rotation_y |-> rotation_deg, iqpython_file |-> "", has_program |-> FALSE ]

\* scene_load: cylinders are zeroed, then mass = 0.1 (scene.cpp:211-212)
SceneCylinder(x, z, radius) ==
    [ x |-> x, z |-> z, radius |-> radius, height |-> 400,
      vel_x |-> 0, vel_z |-> 0, mass |-> 100 ]

Scene(rs, cs) == [ robots |-> rs, cylinders |-> cs ]

\* the scene files the runs start from
SCENES ==
    { \* one robot in free space, at several yaws
      Scene(<< SceneRobot("box.mpd", 0, 0, 0, TRUE) >>, << >>),
      Scene(<< SceneRobot("box.mpd", 1000, -500, 270, TRUE) >>, << >>),
      Scene(<< SceneRobot("arm.mpd", 0, 0, 90, FALSE) >>, << >>),
      \* against the +X wall: penetrations 0.14, 0.15, 0.16 and 0.40 in
      Scene(<< SceneRobot("box.mpd", 4514, 0, 0, TRUE) >>, << >>),
      Scene(<< SceneRobot("box.mpd", 4515, 0, 0, TRUE) >>, << >>),
      Scene(<< SceneRobot("box.mpd", 4516, 0, 0, TRUE) >>, << >>),
      Scene(<< SceneRobot("box.mpd", 4440, 0, 90, TRUE) >>, << >>),
      \* in the -X / -Z corner
      Scene(<< SceneRobot("box.mpd", -4520, -3230, 0, FALSE) >>, << >>),
      \* two robots overlapping by 0.14, 0.16 and 0.35 in along X
      Scene(<< SceneRobot("box.mpd", 0, 0, 0, TRUE),
               SceneRobot("box.mpd", 586, 0, 0, FALSE) >>, << >>),
      Scene(<< SceneRobot("box.mpd", 0, 0, 0, TRUE),
               SceneRobot("box.mpd", 584, 0, 0, TRUE) >>, << >>),
      Scene(<< SceneRobot("box.mpd", 0, 100, 0, FALSE),
               SceneRobot("box.mpd", -565, 0, 0, TRUE) >>, << >>),
      \* two submodels of one robot both overlap the other robot
      Scene(<< SceneRobot("arm.mpd", 0, 0, 0, TRUE),
               SceneRobot("box.mpd", 319, 777, 0, FALSE) >>, << >>),
      \* a braced robot next to the +Z wall, overlapped by a second robot
      Scene(<< SceneRobot("diag.mpd", 0, 3250, 45, FALSE),
               SceneRobot("box.mpd", 0, 2555, 0, TRUE) >>, << >>),
      \* a robot and cylinders: penetrations 0.14, 0.16 and 0.20 in
      Scene(<< SceneRobot("box.mpd", 0, 0, 0, TRUE) >>,
            << SceneCylinder(0, 386, 150) >>),
      Scene(<< SceneRobot("box.mpd", 0, 0, 0, TRUE) >>,
            << SceneCylinder(0, -384, 150) >>),
      Scene(<< SceneRobot("box.mpd", 0, 0, 0, TRUE) >>,
            << SceneCylinder(228, 304, 150), SceneCylinder(500, 304, 150) >>),
      \* a robot behind a row of three cylinders: overlaps 0.20 and 0.07 in
      Scene(<< SceneRobot("box.mpd", 0, 0, 0, TRUE) >>,
            << SceneCylinder(0, 386, 150), SceneCylinder(0, 666, 150),
               SceneCylinder(200, 880, 150) >>),
      \* three robots: the first two overlap by 0.35 in, the third stands apart
      Scene(<< SceneRobot("box.mpd", 0, 100, 0, FALSE),
               SceneRobot("box.mpd", -565, 0, 0, TRUE),
               SceneRobot("box.mpd", 2000, 2000, 0, FALSE) >>, << >>),
      \* a placement whose iqpython line has no value
      Scene(<< SceneRobotKey("box.mpd", 0, 0, 180, "") >>, << >>),
      \* a scene without robots
      Scene(<< >>, << SceneCylinder(0, 0, 150), SceneCylinder(280, 0, 150) >>) }

-----------------------------------------------------------------------------
(* The main loop: main.cpp:1829-1961.  pc names the step about to run.     *)

FHW == FIELD_WIDTH \div 2          \* FIELD_WIDTH / 2.0f
FHD == FIELD_DEPTH \div 2          \* FIELD_DEPTH / 2.0f

At(step, iter, i, j) == [ step |-> step, iter |-> iter, i |-> i, j |-> j ]

\* the pairs i < j of robots.size() = n, in loop order, from (i, j) on
RECURSIVE PairSeq(_, _, _)
PairSeq(n, i, j) ==
    IF i >= n THEN << >>
    ELSE IF j >= n THEN PairSeq(n, i + 1, i + 2)
    ELSE << << i, j >> >> \o PairSeq(n, i, j + 1)

\* one iteration of run_collision_response for n robots
ResponseIteration(n, iter) ==
    [ k \in 1..Len(PairSeq(n, 0, 1)) |->
        At("robot_robot", iter, PairSeq(n, 0, 1)[k][1], PairSeq(n, 0, 1)[k][2]) ]
    \o [ k \in 1..n |-> At("wall", iter, k - 1, -1) ]
    \o [ k \in 1..n |-> At("cylinder", iter, k - 1, -1) ]

RECURSIVE ResponseProgram(_, _)
ResponseProgram(n, iter) ==
    IF iter >= MAX_ITERATIONS THEN << >>
    ELSE ResponseIteration(n, iter) \o ResponseProgram(n, iter + 1)

\* a frame whose render sync (Step 3) runs before the collision response
FrameProgramSyncFirst(n) ==
    << At("poll", -1, -1, -1), At("drive", -1, -1, -1), At("sync", -1, -1, -1) >>
    \o ResponseProgram(n, 0)
    \o << At("cylinder_physics", -1, -1, -1),
          At("detect", -1, -1, -1), At("render", -1, -1, -1) >>

\* the steps of one frame for n robots, in program order
FrameProgram(n) ==
    << At("poll", -1, -1, -1), At("drive", -1, -1, -1) >>
    \o ResponseProgram(n, 0)
    \o << At("cylinder_physics", -1, -1, -1), At("sync", -1, -1, -1),
          At("detect", -1, -1, -1), At("render", -1, -1, -1) >>

\* the step after cur; Step 4 runs only if (show_bounding_boxes); the loop
\* condition !platform.should_quit is tested after the frame is rendered
NextPc(cur, n, show, quit) ==
    LET prog == FrameProgram(n)
        k == CHOOSE x \in 1..Len(prog) : prog[x] = cur
    IN  IF cur.step = "render"
        THEN IF quit THEN At("exit", -1, -1, -1) ELSE prog[1]
        ELSE IF prog[k + 1].step = "detect" /\ ~show THEN prog[k + 2]
        ELSE prog[k + 1]

NUMBER_KEYS == << "1", "2", "3", "4" >>      \* SDL_SCANCODE_1 .. SDL_SCANCODE_4

\* the keys 1-4 in order (main.cpp:1872-1884); k is the 0-based robot_idx
RECURSIVE SwitchActive(_, _, _, _)
SwitchActive(keys, sr, active, k) ==
    IF k > 3 THEN active
    ELSE IF NUMBER_KEYS[k + 1] \in keys /\ k < Len(sr) /\ sr[k + 1].has_program
    THEN SwitchActive(keys, sr, k, k + 1)
    ELSE SwitchActive(keys, sr, active, k + 1)

\* main.cpp:1753-1759: the first robot of the scene with a program, or -1
AutoSelect(sr) ==
    IF \E k \in 1..Len(sr) : sr[k].has_program
    THEN (CHOOSE k \in 1..Len(sr) :
            sr[k].has_program /\ \A o \in 1..(k - 1) : ~sr[o].has_program) - 1
    ELSE -1

MM_PER_INCH == 254         \* main.cpp:1928: 25.4f (tenths of a millimetre)
SPIN_WRAP == 6283          \* main.cpp:1950: 6.28318f

RECURSIVE WrapSpin(_)
WrapSpin(a) ==
    IF a > SPIN_WRAP THEN WrapSpin(a - SPIN_WRAP)
    ELSE IF a < -SPIN_WRAP THEN WrapSpin(a + SPIN_WRAP)
    ELSE a

\* main.cpp:1921-1953: one wheel assembly's spin angle
SpinWheel(wheel, d, dt_sec) ==
    LET wheel_vel == IF wheel.is_left THEN d.left_wheel_vel ELSE d.right_wheel_vel
        radius_in == RDiv(wheel.diameter_mm * 100, MM_PER_INCH * 2)
        angular_vel0 == RDiv(wheel_vel * Scale, radius_in)
        ax == Abs(wheel.spin_axis[1])
        ay == Abs(wheel.spin_axis[2])
        az == Abs(wheel.spin_axis[3])
        negative == IF ax >= ay /\ ax >= az THEN wheel.spin_axis[1] < 0
                    ELSE IF ay >= ax /\ ay >= az THEN wheel.spin_axis[2] < 0
                    ELSE wheel.spin_axis[3] < 0
        angular_vel1 == IF negative THEN -angular_vel0 ELSE angular_vel0
        angular_vel == IF d.left_wheel_vel * d.right_wheel_vel < 0
                       THEN -angular_vel1 ELSE angular_vel1
    IN  IF radius_in > 0
        THEN [ wheel EXCEPT !.spin_angle =
                 WrapSpin(@ + RDiv(angular_vel * dt_sec, Scale)) ]
        ELSE wheel

\* Step 3 for one robot
SyncRobot(robot, dt_sec) ==
    [ robot EXCEPT
        !.offset[1] = robot.drivetrain.pos_x,
        !.offset[3] = robot.drivetrain.pos_z,
        !.rotation_y = robot.drivetrain.heading,
        !.wheels = [ w \in 1..Len(@) |->
                       IF w <= robot.wheel_count
                       THEN SpinWheel(@[w], robot.drivetrain, dt_sec) ELSE @[w] ] ]

\* is every submodel's world enclosing AABB inside the field?
InsideField(robot) ==
    \A sm \in 1..robot.submodel_count :
        LET box == obb_get_enclosing_aabb(
                     transform_obb_to_world(robot.submodel_obbs[sm], robot))
        IN  /\ box.min[1] >= -FHW /\ box.max[1] <= FHW
            /\ box.min[3] >= -FHD /\ box.max[3] <= FHD

NoInput == [ dt |-> 0, keys |-> {}, state |-> << >> ]

\* what one poll can deliver: the frame time (ms), the keys pressed ("ESC",
\* "B", "1" .. "4") and the motor state the robot program
\* of the active robot reported last
PollInputs ==
    { [ dt |-> 16,  keys |-> {},        state |-> << >> ],
      [ dt |-> 250, keys |-> { "B" },   state |-> << >> ],
      [ dt |-> 16,  keys |-> { "2" },    state |-> << [ port |-> 1, speed |-> 500 ] >> ],
      [ dt |-> 100, keys |-> { "ESC" }, state |-> << >> ] }

\* the history record: the steps run so far in this frame, the last step, the
\* robots, parts, cylinders and active robot before it, whether the scene
\* started inside the field, the call counter and force sums of the API
\* callers, whether scene_load could read the scene file, the value main()
\* returned (-1 while it runs), and the robots (1-based) the collision
\* response has moved so far in this frame
Hist(done, rs, cs, inside, calls, sum) ==
    [ done |-> done, last |-> At("init", -1, -1, -1),
      prev_robots |-> rs, prev_cylinders |-> cs, prev_parts |-> << >>,
      started_inside |-> inside, calls |-> calls, sum |-> sum,
      prev_active |-> -1, scene_read |-> TRUE, exit_code |-> -1,
      corrected |-> {} ]

\* the state main() enters its loop in, for a scene file among scenes
InitFrom(scenes) ==
    \E scene \in scenes, uninit \in UNINIT :
        LET st == RealizeScene(scene.robots, DOCS, ROBOTDEFS, MESHES, uninit, 1,
                               [ robots |-> << >>, parts |-> << >> ])
        IN  /\ robots = st.robots
            /\ parts = st.parts
            /\ cylinders = scene.cylinders
            /\ scene_robots = scene.robots
            /\ active_robot_index = AutoSelect(scene.robots)
            /\ show_bounding_boxes = FALSE
            /\ should_quit = FALSE
            /\ frame = 0
            /\ dt = 0
            /\ input = NoInput
            /\ pc = At("poll", -1, -1, -1)
            /\ hist = Hist(<< >>, st.robots, scene.cylinders,
                           \A r \in 1..Len(st.robots) : InsideField(st.robots[r]),
                           0, << 0, 0, 0 >>)

\* what the Scene on the stack of main() may hold when scene_load returned
\* before its memset (scene.cpp:84-92)
UNINIT_SCENES ==
    { Scene(<< >>, << >>),
      Scene(<< SceneRobotKey("", 0, 0, 0, ""), SceneRobotKey("", 0, 0, 0, "") >>, << >>),
      Scene(<< >>, << [ x |-> 123, z |-> -45, radius |-> 7, height |-> 0,
                        vel_x |-> 0, vel_z |-> 0, mass |-> 0 ] >>) }

\* main.cpp:1488-1492 and 1764-1766: scene_load failed; main() goes on to its
\* loop with no robots, no parts and the Scene it never filled
InitUnreadable ==
    \E scene \in UNINIT_SCENES :
        /\ robots = << >>
        /\ parts = << >>
        /\ cylinders = scene.cylinders
        /\ scene_robots = scene.robots
        /\ active_robot_index = -1
        /\ show_bounding_boxes = FALSE
        /\ should_quit = FALSE
        /\ frame = 0
        /\ dt = 0
        /\ input = NoInput
        /\ pc = At("poll", -1, -1, -1)
        /\ hist = [ Hist(<< >>, << >>, scene.cylinders, TRUE, 0, << 0, 0, 0 >>)
                      EXCEPT !.scene_read = FALSE ]

Init == (InitFrom(SCENES) \/ InitUnreadable) /\ ipc = NoBridge /\ load = NoLoad

\* the steps of run_collision_response that move robots
RESPONSE_STEPS == { "robot_robot", "wall", "cylinder" }

\* the robots (1-based) whose position the step from rs to next changed
Moved(rs, next) ==
    { r \in 1..Len(rs) :
        \/ next[r].drivetrain.pos_x # rs[r].drivetrain.pos_x
        \/ next[r].drivetrain.pos_z # rs[r].drivetrain.pos_z }

\* the bookkeeping every step of the loop shares
Advance(show, quit) ==
    /\ pc' = NextPc(pc, Len(robots), show, quit)
    /\ hist' = [ hist EXCEPT
                   !.done = IF pc.step = "poll" THEN << << frame + 1, pc.step >> >>
                            ELSE Append(@, << frame, pc.step >>),
                   !.last = pc,
                   !.prev_robots = robots,
                   !.prev_parts = parts,
                   !.prev_cylinders = cylinders,
                   !.prev_active = active_robot_index,
                   !.exit_code = IF pc.step = "render" /\ quit THEN 0 ELSE @,
                   !.corrected = IF pc.step = "poll" THEN { }
                                 ELSE IF pc.step \in RESPONSE_STEPS
                                 THEN @ \cup Moved(robots, robots')
                                 ELSE @ ]

\* main.cpp:1830-1884: frame time, events, keys
Poll ==
    /\ pc.step = "poll"
    /\ frame < MaxFrames
    /\ \E in \in PollInputs :
        /\ input' = in
        /\ dt' = IF in.dt > DT_CAP THEN DT_CAP ELSE in.dt
        /\ should_quit' = (should_quit \/ "ESC" \in in.keys)
        /\ show_bounding_boxes' = IF "B" \in in.keys THEN ~show_bounding_boxes
                                  ELSE show_bounding_boxes
        /\ active_robot_index' =
               SwitchActive(in.keys, scene_robots, active_robot_index, 0)
    /\ frame' = frame + 1
    /\ Advance(show_bounding_boxes', should_quit')
    /\ UNCHANGED << robots, parts, cylinders, scene_robots, ipc, load >>

\* Step 1 (main.cpp:1898-1901); the motors are as the last frame left them
Drive ==
    /\ pc.step = "drive"
    /\ robots' = [ r \in 1..Len(robots) |->
                     [ robots[r] EXCEPT !.drivetrain = drivetrain_update(@, dt) ] ]
    /\ Advance(show_bounding_boxes, should_quit)
    /\ UNCHANGED << frame, dt, parts, cylinders, scene_robots,
                    show_bounding_boxes, active_robot_index, should_quit, input, ipc, load >>

\* Step 2, one call apply_robot_collision_response(&robots[i], &robots[j])
RobotRobot ==
    /\ pc.step = "robot_robot"
    /\ LET res == apply_robot_collision_response(robots[pc.i + 1], robots[pc.j + 1])
       IN  robots' = [ robots EXCEPT ![pc.i + 1] = res[1], ![pc.j + 1] = res[2] ]
    /\ Advance(show_bounding_boxes, should_quit)
    /\ UNCHANGED << frame, dt, parts, cylinders, scene_robots,
                    show_bounding_boxes, active_robot_index, should_quit, input, ipc, load >>

\* Step 2, one call apply_wall_collision_response(&robot, ...)
Wall ==
    /\ pc.step = "wall"
    /\ LET res == apply_wall_collision_response(robots[pc.i + 1], parts, FHW, FHD)
       IN  /\ robots' = [ robots EXCEPT ![pc.i + 1] = res.robot ]
           /\ parts' = res.ps
    /\ Advance(show_bounding_boxes, should_quit)
    /\ UNCHANGED << frame, dt, cylinders, scene_robots,
                    show_bounding_boxes, active_robot_index, should_quit, input, ipc, load >>

\* Step 2, one call apply_cylinder_collision_response(&robot, ...)
Cylinder ==
    /\ pc.step = "cylinder"
    /\ LET res == apply_cylinder_collision_response(robots[pc.i + 1], parts, cylinders)
       IN  /\ robots' = [ robots EXCEPT ![pc.i + 1] = res.robot ]
           /\ parts' = res.ps
           /\ cylinders' = res.cyls
    /\ Advance(show_bounding_boxes, should_quit)
    /\ UNCHANGED << frame, dt, scene_robots,
                    show_bounding_boxes, active_robot_index, should_quit, input, ipc, load >>

\* Step 2b (main.cpp:1907)
CylinderPhysics ==
    /\ pc.step = "cylinder_physics"
    /\ cylinders' = update_cylinder_physics(cylinders, dt, FHW, FHD)
    /\ Advance(show_bounding_boxes, should_quit)
    /\ UNCHANGED << frame, dt, robots, parts, scene_robots,
                    show_bounding_boxes, active_robot_index, should_quit, input, ipc, load >>

\* Step 3 (main.cpp:1914-1954)
Sync ==
    /\ pc.step = "sync"
    /\ robots' = [ r \in 1..Len(robots) |-> SyncRobot(robots[r], dt) ]
    /\ Advance(show_bounding_boxes, should_quit)
    /\ UNCHANGED << frame, dt, parts, cylinders, scene_robots,
                    show_bounding_boxes, active_robot_index, should_quit, input, ipc, load >>

\* Step 4 (main.cpp:1956-1961), reached only with show_bounding_boxes
Detect ==
    /\ pc.step = "detect"
    /\ LET res == run_hierarchical_collision_detection(robots, parts, cylinders,
                                                       FHW, FHD)
       IN  /\ robots' = res.robots
           /\ parts' = res.ps
    /\ Advance(show_bounding_boxes, should_quit)
    /\ UNCHANGED << frame, dt, cylinders, scene_robots,
                    show_bounding_boxes, active_robot_index, should_quit, input, ipc, load >>

\* the rest of the loop body: camera and drawing; then the loop condition
Render ==
    /\ pc.step = "render"
    /\ Advance(show_bounding_boxes, should_quit)
    /\ UNCHANGED << frame, dt, robots, parts, cylinders, scene_robots,
                    show_bounding_boxes, active_robot_index, should_quit, input, ipc, load >>

Next ==
    \/ Poll
    \/ Drive
    \/ RobotRobot
    \/ Wall
    \/ Cylinder
    \/ CylinderPhysics
    \/ Sync
    \/ Detect
    \/ Render

Spec == Init /\ [][Next]_vars

-----------------------------------------------------------------------------
(* The main loop with a caller of drivetrain_set_motors.  main.cpp:1886-1888 *)
(* announces the call and does not make it; SpecDriven adds it where the    *)
(* comment stands, before Step 1, so that the robots move.                  *)

MaxCommands == 2        \* motor commands issued in one run

MotorCommands == { << 750, 750 >>, << 1000, -1000 >> }

DrivenScenes ==
    { scene \in SCENES :
        \/ Len(scene.robots) = 1 /\ scene.robots[1].rotation_y = 90
        \/ Len(scene.robots) = 2 /\ scene.robots[2].x = 584
        \/ Len(scene.cylinders) \in { 1, 3 } /\ Len(scene.robots) = 1
              /\ scene.cylinders[1].z > 0 }

InitDriven == InitFrom(DrivenScenes) /\ ipc = NoBridge /\ load = NoLoad

Command ==
    /\ pc.step = "drive"
    /\ hist.calls < MaxCommands
    /\ \E r \in 1..Len(robots), m \in MotorCommands :
          robots' = [ robots EXCEPT
                        ![r].drivetrain = drivetrain_set_motors(@, m[1], m[2]) ]
    /\ hist' = [ hist EXCEPT !.calls = @ + 1 ]
    /\ UNCHANGED << pc, frame, dt, parts, cylinders, scene_robots,
                    show_bounding_boxes, active_robot_index, should_quit, input, ipc, load >>

NextDriven == Next \/ Command

SpecDriven == InitDriven /\ [][NextDriven]_vars

-----------------------------------------------------------------------------
(* The drivetrain API under an arbitrary caller (drivetrain.h): one         *)
(* drivetrain, robots[1].drivetrain, and a bounded number of calls.         *)

MaxCalls == 4           \* API calls in one run

ApiMotors == { << 0, 0 >>, << 750, 750 >>, << -1500, 400 >>, << -750, 750 >>,
               << -4, 4 >> }
ApiForces == { << 1000, 0 >>, << -400, 600 >> }
ApiTorques == { 500 }
ApiSteps == { 16, 100 }
ApiPoses == { << 0, 0, 0 >>, << 1000, -500, DEG_TO_RAD(270) >>,
              << -200, 300, -4000 >>, << 0, 0, PI >>, << 0, 0, -PI >> }

InitDT == InitFrom({ Scene(<< SceneRobot("box.mpd", 0, 0, 0, TRUE) >>, << >>) }) /\ ipc = NoBridge /\ load = NoLoad

\* the caller runs before the main loop starts
ApiEnabled == pc.step = "poll" /\ frame = 0 /\ hist.calls < MaxCalls

\* the history after the call op; sum = the forces and the torque applied
\* since the last update
ApiHist(op, sum) ==
    [ hist EXCEPT !.calls = @ + 1, !.sum = sum, !.last = At(op, -1, -1, -1),
                  !.prev_robots = robots ]

SetMotors ==
    /\ ApiEnabled
    /\ \E m \in ApiMotors :
          robots' = [ robots EXCEPT
                        ![1].drivetrain = drivetrain_set_motors(@, m[1], m[2]) ]
    /\ hist' = ApiHist("set_motors", hist.sum)
    /\ UNCHANGED << pc, frame, dt, parts, cylinders, scene_robots,
                    show_bounding_boxes, active_robot_index, should_quit, input, ipc, load >>

ApplyForce ==
    /\ ApiEnabled
    /\ \E f \in ApiForces :
          /\ robots' = [ robots EXCEPT
                           ![1].drivetrain = drivetrain_apply_force(@, f[1], f[2]) ]
          /\ hist' = ApiHist("apply_force",
                             << hist.sum[1] + f[1], hist.sum[2] + f[2], hist.sum[3] >>)
    /\ UNCHANGED << pc, frame, dt, parts, cylinders, scene_robots,
                    show_bounding_boxes, active_robot_index, should_quit, input, ipc, load >>

ApplyTorque ==
    /\ ApiEnabled
    /\ \E t \in ApiTorques :
          /\ robots' = [ robots EXCEPT
                           ![1].drivetrain = drivetrain_apply_torque(@, t) ]
          /\ hist' = ApiHist("apply_torque",
                             << hist.sum[1], hist.sum[2], hist.sum[3] + t >>)
    /\ UNCHANGED << pc, frame, dt, parts, cylinders, scene_robots,
                    show_bounding_boxes, active_robot_index, should_quit, input, ipc, load >>

Update ==
    /\ ApiEnabled
    /\ \E step \in ApiSteps :
          /\ robots' = [ robots EXCEPT
                           ![1].drivetrain = drivetrain_update(@, step) ]
          /\ dt' = step
    /\ hist' = ApiHist("update", << 0, 0, 0 >>)
    /\ UNCHANGED << pc, frame, parts, cylinders, scene_robots,
                    show_bounding_boxes, active_robot_index, should_quit, input, ipc, load >>

SetPosition ==
    /\ ApiEnabled
    /\ \E pose \in ApiPoses :
          robots' = [ robots EXCEPT
                        ![1].drivetrain =
                            drivetrain_set_position(@, pose[1], pose[2], pose[3]) ]
    /\ hist' = ApiHist("set_position", hist.sum)
    /\ UNCHANGED << pc, frame, dt, parts, cylinders, scene_robots,
                    show_bounding_boxes, active_robot_index, should_quit, input, ipc, load >>

NextDT ==
    \/ SetMotors
    \/ ApplyForce
    \/ ApplyTorque
    \/ Update
    \/ SetPosition

SpecDT == InitDT /\ [][NextDT]_vars

-----------------------------------------------------------------------------
(* A robot that is let go: one robot, a bounded number of motor commands,  *)
(* pushes and frames, then both motors below 1 percent and frame after     *)
(* frame of the loop's physics (Steps 1 to 3) with nothing else acting.    *)

MaxShoves == 2          \* commands, pushes and frames before the release

COAST_DT == 16          \* the frame time of the frames, in ms

CoastScenes ==
    { Scene(<< SceneRobot("box.mpd", 0, 0, 0, TRUE) >>, << >>),
      Scene(<< SceneRobot("box.mpd", 0, 0, 45, TRUE) >>, << >>),
      \* 0.25 in into the +X wall, heading half way between +X and +Z
      Scene(<< SceneRobot("box.mpd", 4330, 0, 45, TRUE) >>, << >>) }

ReleaseMotors == { << 0, 0 >>, << -4, 4 >> }

InitCoast == InitFrom(CoastScenes) /\ ipc = NoBridge /\ load = NoLoad

Released == hist.last.step \in { "release", "coast" }

CoastEnabled == pc.step = "poll" /\ frame = 0 /\ Len(robots) = 1

Holding == CoastEnabled /\ ~Released /\ hist.calls < MaxShoves

\* run_collision_response for one robot and no cylinder: MAX_ITERATIONS
\* calls of apply_wall_collision_response (main.cpp:1389-1420)
RECURSIVE CoastResponse(_, _)
CoastResponse(res, iter) ==
    IF iter >= MAX_ITERATIONS THEN res
    ELSE CoastResponse(apply_wall_collision_response(res.robot, res.ps, FHW, FHD),
                       iter + 1)

\* Steps 1, 2 and 3 of one frame (main.cpp:1898-1954) for the robot
CoastFramePhysics(robot, ps) ==
    CoastResponse([ robot |-> [ robot EXCEPT
                                  !.drivetrain = drivetrain_update(@, COAST_DT) ],
                    ps |-> ps ], 0)

CoastHist(op, counted) ==
    [ hist EXCEPT !.calls = IF counted THEN @ + 1 ELSE @,
                  !.last = At(op, -1, -1, -1),
                  !.prev_robots = robots ]

CoastCommand ==
    /\ Holding
    /\ \E m \in MotorCommands :
          robots' = [ robots EXCEPT
                        ![1].drivetrain = drivetrain_set_motors(@, m[1], m[2]) ]
    /\ hist' = CoastHist("set_motors", TRUE)
    /\ UNCHANGED << pc, frame, dt, parts, cylinders, scene_robots,
                    show_bounding_boxes, active_robot_index, should_quit, input, ipc, load >>

CoastShove ==
    /\ Holding
    /\ \E f \in ApiForces :
          robots' = [ robots EXCEPT
                        ![1].drivetrain = drivetrain_apply_force(@, f[1], f[2]) ]
    /\ hist' = CoastHist("apply_force", TRUE)
    /\ UNCHANGED << pc, frame, dt, parts, cylinders, scene_robots,
                    show_bounding_boxes, active_robot_index, should_quit, input, ipc, load >>

\* from here on both motor commands are below 1 percent
CoastRelease ==
    /\ CoastEnabled /\ ~Released
    /\ \E m \in ReleaseMotors :
          robots' = [ robots EXCEPT
                        ![1].drivetrain = drivetrain_set_motors(@, m[1], m[2]) ]
    /\ hist' = CoastHist("release", FALSE)
    /\ UNCHANGED << pc, frame, dt, parts, cylinders, scene_robots,
                    show_bounding_boxes, active_robot_index, should_quit, input, ipc, load >>

\* one frame; the frames before the release are counted, those after it are
\* not: the loop runs on
CoastFrame ==
    /\ CoastEnabled
    /\ Released \/ hist.calls < MaxShoves
    /\ \E res \in { CoastFramePhysics(robots[1], parts) } :
          /\ robots' = << SyncRobot(res.robot, COAST_DT) >>
          /\ parts' = res.ps
    /\ dt' = COAST_DT
    /\ hist' = CoastHist(IF Released THEN "coast" ELSE "frame", ~Released)
    /\ UNCHANGED << pc, frame, cylinders, scene_robots,
                    show_bounding_boxes, active_robot_index, should_quit, input, ipc, load >>

NextCoast ==
    \/ CoastCommand
    \/ CoastShove
    \/ CoastRelease
    \/ CoastFrame

SpecCoast == InitCoast /\ [][NextCoast]_vars

-----------------------------------------------------------------------------
(* A caller of the bridge API of ipc/python_bridge.h and a child process.  *)
(* The child has written the lines of one of STREAMS; how many bytes each  *)
(* read hands over is the kernel's choice.                                 *)

MaxBridgeCalls == 5     \* bridge calls and child events in one run

STREAMS ==
    { << 1, 2, 4, 3 >>, << 2, 8, 3, 5 >>, << 2, 6, 7, 11, 3 >>, << 2, 10 >>,
      << 2, 9, 3 >>, << 2, 5, 3 >>, << 12, 5 >> }

ReadSizes == { 21, TEMP_SIZE - 1 }

InitBridge ==
    /\ InitFrom({ Scene(<< >>, << >>) })
    /\ load = NoLoad
    /\ \E ok \in BOOLEAN, ids \in STREAMS :
          LET w == python_bridge_init(ok, Written(ids))
          IN  ipc = Ipc(w, w, "init", ok, << >>, << >>, << >>)

BridgeEnabled == hist.calls < MaxBridgeCalls /\ ipc.w.alive

BridgeCalled ==
    /\ hist' = [ hist EXCEPT !.calls = @ + 1 ]
    /\ UNCHANGED << pc, frame, dt, robots, parts, cylinders, scene_robots,
                    show_bounding_boxes, active_robot_index, should_quit, input,
                    load >>

\* the history after the call of python_bridge_update that returned r
AfterUpdate(r) ==
    Ipc(r.w, ipc.w, "update", r.result, r.seen, Join(ipc.consumed, r.data),
        ipc.handed \o [ i \in 1..Len(SelectSeq(r.seen, IsHanded)) |->
                          SelectSeq(r.seen, IsHanded)[i].json ])

\* the bytes a read of at most size bytes gets
ReadBytes(pipe, size) == IF Bytes(pipe) < size THEN Bytes(pipe) ELSE size

BridgeUpdate ==
    /\ BridgeEnabled
    /\ \E size \in ReadSizes :
          ipc' = AfterUpdate(python_bridge_update(ipc.w, ReadBytes(ipc.w.stdout_pipe, size)))
    /\ BridgeCalled

BridgeSendGamepad ==
    /\ BridgeEnabled
    /\ ipc' = [ ipc EXCEPT !.w = python_bridge_send_gamepad(@), !.before = ipc.w,
                           !.last = "send_gamepad", !.seen = << >> ]
    /\ BridgeCalled

BridgeSendTick ==
    /\ BridgeEnabled
    /\ ipc' = [ ipc EXCEPT !.w = python_bridge_send_tick(@), !.before = ipc.w,
                           !.last = "send_tick", !.seen = << >> ]
    /\ BridgeCalled

BridgeDestroy ==
    /\ BridgeEnabled
    /\ ipc' = [ ipc EXCEPT !.w = python_bridge_destroy(@), !.before = ipc.w,
                           !.last = "destroy", !.seen = << >> ]
    /\ BridgeCalled

\* the child process ends on its own
ChildExit ==
    /\ BridgeEnabled
    /\ ipc.w.child = "running"
    /\ ipc' = [ ipc EXCEPT !.w.child = "zombie", !.before = ipc.w,
                           !.last = "child_exit", !.seen = << >> ]
    /\ BridgeCalled

NextBridge ==
    \/ BridgeUpdate
    \/ BridgeSendGamepad
    \/ BridgeSendTick
    \/ BridgeDestroy
    \/ ChildExit

SpecBridge == InitBridge /\ [][NextBridge]_vars


-----------------------------------------------------------------------------
(* The loaders: main.cpp:1494-1681 over a scene's robots, with mpd_load    *)
(* followed line by line and call by call.  load.pc is "scene" at the head *)
(* of the loop over the robots, "parse" and "expand" inside mpd_load,      *)
(* "meshes" inside the loop over the parts of the document, "done" after   *)
(* the last robot.                                                         *)

ROT_Y90 == << 0, 0, 1000,  0, 1000, 0,  -1000, 0, 0 >>
ROT_X90 == << 1000, 0, 0,  0, 0, -1000,  0, 1000, 0 >>

PLATE == Lower("plate", "dat")
BEAM == Lower("beam", "dat")
PIN == Lower("pin", "dat")
HOLLOW == Lower("hollow", "dat")

\* the files under models/robots (file -> lines)
MPD_FILES ==
    [ f \in { "nest.mpd", "cycle.mpd", "mutual.mpd", "wide.mpd", "full.mpd",
              "case.mpd", "gap.mpd", "none.mpd", "bare.mpd" } |->
        CASE f = "nest.mpd" ->
               << Meta, Type1(4, 1, 1, 1, IDENTITY3, PLATE),
                  FileLine(Lower("main", "ldr")), Meta,
                  Type1(16, 10, 0, 0, IDENTITY3, PLATE),
                  Type1(4, 100, 0, 0, ROT_Y90, Lower("arm", "ldr")),
                  Short,
                  Type1(16, 0, 0, -40, ROT_Y45, Lower("leg", "ldr")),
                  FileLine(Lower("arm", "ldr")),
                  Type1(16, 0, 0, 50, ROT_X90, BEAM),
                  Type1(16, 0, 20, 0, ROT_X90, Lower("hand", "mpd")),
                  FileLine(Lower("hand", "mpd")),
                  Type1(2, 7, 0, 3, ROT_Y45, Name("beam", { }, "dat", { 1, 2, 3 })),
                  Type1(16, -7, 0, 3, ROT_Y90, PLATE),
                  FileLine(Lower("leg", "ldr")),
                  Type1(16, 5, 5, 5, ROT_Y90, PLATE) >>
          [] f = "cycle.mpd" ->
               << FileLine(Lower("loop", "ldr")),
                  Type1(16, 1, 0, 0, IDENTITY3, BEAM),
                  Type1(16, 10, 0, 0, ROT_Y90, Lower("loop", "ldr")) >>
          [] f = "mutual.mpd" ->
               << FileLine(Lower("a", "ldr")),
                  Type1(16, 0, 10, 0, ROT_X90, Lower("b", "ldr")),
                  Type1(16, 0, 0, 1, IDENTITY3, PLATE),
                  FileLine(Lower("b", "ldr")),
                  Type1(16, 2, 0, 0, IDENTITY3, BEAM),
                  Type1(16, 0, 0, 10, ROT_Y90, Lower("a", "ldr")) >>
          [] f = "wide.mpd" ->
               << FileLine(Lower("top", "ldr")),
                  Type1(16, 0, 0, 0, IDENTITY3, PLATE),
                  Type1(16, 0, 1, 0, IDENTITY3, PLATE) >>
               \o [ k \in 1..70 |-> Type1(16, 10 * k, 0, 0, ROT_Y90, Lower("row", "ldr")) ]
               \o << FileLine(Lower("row", "ldr")) >>
               \o [ k \in 1..15 |-> Type1(16, 0, 0, k, IDENTITY3, BEAM) ]
          [] f = "full.mpd" ->
               << FileLine(Lower("top", "ldr")),
                  Type1(16, 0, 0, 0, IDENTITY3, PLATE),
                  Type1(16, 0, 1, 0, IDENTITY3, PLATE) >>
               \o [ k \in 1..55 |-> Type1(16, 0, 10 * k, 0, ROT_X90, Lower("row", "ldr")) ]
               \o << FileLine(Lower("row", "ldr")) >>
               \o [ k \in 1..20 |-> Type1(16, k, 0, 0, IDENTITY3, PLATE) ]
          [] f = "case.mpd" ->
               << FileLine(Name("main", { 1 }, "ldr", { })),
                  Type1(16, 0, 0, 0, IDENTITY3, PLATE),
                  Type1(16, 0, 0, 10, IDENTITY3, Name("leg", { }, "ldr", { 1, 2, 3 })),
                  Type1(16, 0, 0, 20, IDENTITY3, Lower("arm", "ldr")),
                  Type1(16, 0, 0, 30, IDENTITY3, Lower("ghost", "ldr")),
                  FileLine(Name("arm", { 1 }, "ldr", { })),
                  Type1(16, 0, 0, 0, IDENTITY3, BEAM),
                  FileLine(Lower("leg", "ldr")),
                  Type1(16, 0, 0, 0, IDENTITY3, PLATE) >>
          [] f = "gap.mpd" ->
               << FileLine(Lower("bot", "ldr")),
                  Type1(16, 0, 0, 0, IDENTITY3, Lower("a", "ldr")),
                  Type1(16, 0, 0, 9, IDENTITY3, Lower("b", "ldr")),
                  FileLine(Lower("a", "ldr")),
                  Type1(16, 0, 0, 0, IDENTITY3, PIN),
                  Type1(16, 1, 0, 0, IDENTITY3, PLATE),
                  Type1(16, 2, 0, 0, IDENTITY3, PIN),
                  FileLine(Lower("b", "ldr")),
                  Type1(16, 0, 0, 0, IDENTITY3, BEAM),
                  Type1(16, 1, 0, 0, IDENTITY3, HOLLOW),
                  Type1(16, 2, 0, 0, IDENTITY3, HOLLOW) >>
          [] f = "none.mpd" ->
               << Meta, Type1(16, 0, 0, 0, IDENTITY3, PLATE) >>
          [] f = "bare.mpd" ->
               << FileLine(Lower("only", "ldr")),
                  Type1(16, 0, 0, 0, IDENTITY3, Lower("ghost", "ldr")) >> ]

\* the files under models/parts (name -> count of the POSITION accessor)
GLB_FILES ==
    (Lower("plate", "glb") :> 8) @@ (Lower("beam", "glb") :> 24)
        @@ (Lower("hollow", "glb") :> 0)

\* the robots of the scenes the loaders are run on
LOAD_SCENES ==
    { << "nest.mpd" >>, << "cycle.mpd", "mutual.mpd" >>, << "wide.mpd" >>,
      << "full.mpd" >>,
      << "case.mpd" >>, << "gap.mpd", "nest.mpd" >>,
      << "none.mpd", "missing.mpd", "bare.mpd", "gap.mpd", "gap.mpd" >> }

InitLoad ==
    /\ InitFrom({ Scene(<< >>, << >>) })
    /\ ipc = NoBridge
    /\ \E scene \in LOAD_SCENES : load = [ NoLoad EXCEPT !.pc = "scene", !.scene = scene ]

LoadStep ==
    UNCHANGED << pc, frame, dt, robots, parts, cylinders, scene_robots,
                 show_bounding_boxes, active_robot_index, should_quit, input, ipc,
                 hist >>

\* main.cpp:1507-1510: mpd_load failed, or the robot is complete: on to the
\* next robot of the scene
Continue(l, file, result) ==
    [ l EXCEPT !.pc = IF l.robot_idx + 1 < Len(l.scene) THEN "scene" ELSE "done",
               !.robot_idx = @ + 1,
               !.stack = << >>,
               !.returned = Append(@, [ file |-> file, result |-> result,
                                        doc |-> l.doc, paths |-> l.paths,
                                        submodels |-> l.submodels ]) ]

\* mpd_loader.cpp:390-399: the call of expand_submodel on the main model
StartExpand(l, parsed) ==
    [ l EXCEPT !.pc = "expand",
               !.submodels = parsed.submodels,
               !.doc = [ ZeroDocument EXCEPT !.name = parsed.main_model ],
               !.paths = << >>,
               !.stack = << Call(parsed.main_model, << 0, 0, 0 >>, IDENTITY3,
                                 DEFAULT_COLOR, 0, -1, << >>) >> ]

\* mpd_loader.cpp:378-399
Parsed(l, parsed) ==
    IF parsed.main_model = EMPTY_NAME
    THEN Continue([ l EXCEPT !.doc = ZeroDocument, !.paths = << >>,
                             !.submodels = parsed.submodels ],
                  l.scene[l.robot_idx + 1], FALSE)
    ELSE StartExpand(l, parsed)

\* the file mpd_load is called on
File(l) == l.scene[l.robot_idx + 1]

\* mpd_loader.cpp:292-304: mpd_load up to its loop over the lines
MpdLoad ==
    /\ load.pc = "scene"
    /\ load' = IF File(load) \notin DOMAIN MPD_FILES
               THEN Continue([ load EXCEPT !.doc = ZeroDocument, !.paths = << >>,
                                           !.submodels = << >> ],
                             File(load), FALSE)
               ELSE [ load EXCEPT !.pc = "parse", !.line = 1, !.parse = ParseStart ]
    /\ LoadStep

\* mpd_loader.cpp:306-376: one line of the file
ParseNext ==
    /\ load.pc = "parse"
    /\ load.line <= Len(MPD_FILES[File(load)])
    /\ load' = [ load EXCEPT !.parse = ParseLine(@, MPD_FILES[File(load)][load.line]),
                             !.line = @ + 1 ]
    /\ LoadStep

\* mpd_loader.cpp:378-399: the end of the file
ParseEnd ==
    /\ load.pc = "parse"
    /\ load.line > Len(MPD_FILES[File(load)])
    /\ load' = Parsed(load, load.parse)
    /\ LoadStep

Top(l) == l.stack[Len(l.stack)]

\* the mutation of TooDeep that lets one more level through
TooDeepOffByOne(call) == call.depth > MAX_DEPTH + 1

\* mpd_loader.cpp:206-209
TooDeep(call) == call.depth > MAX_DEPTH

\* the activation on top of the stack returns at once
Refuse(l, call, deep, found) ==
    [ l EXCEPT !.stack[Len(l.stack)].at = "return",
               !.refused = IF deep THEN @ + 1 ELSE @,
               !.unresolved = IF ~deep /\ ~found
                              THEN @ \cup { [ name |-> call.name,
                                              sections |-> DOMAIN l.submodels ] }
                              ELSE @ ]

\* mpd_loader.cpp:222-252: the direct parts of the section found
Emit(l, call, sub, doc) ==
    [ l EXCEPT !.doc = doc,
               !.paths = @ \o [ k \in 1..(Len(doc.parts) - Len(l.doc.parts)) |->
                                  [ path |-> call.path, name |-> call.name, k |-> k ] ],
               !.deepest = IF Len(doc.parts) > Len(l.doc.parts) THEN Max(@, call.depth)
                           ELSE @,
               !.stack[Len(l.stack)] =
                   [ call EXCEPT !.at = IF Len(doc.parts) - Len(l.doc.parts) < Len(sub.parts)
                                        THEN "return" ELSE "refs",
                                 !.refs = sub.submodels,
                                 !.i = 1 ] ]

\* mpd_loader.cpp:206-252 of the activation on top of the stack
Entered(l, call, found) ==
    IF TooDeep(call) \/ ~found.found THEN Refuse(l, call, TooDeep(call), found.found)
    ELSE Emit(l, call, l.submodels[found.key],
              EmitParts(l.doc, l.submodels[found.key].parts, call))

ExpandEntry ==
    /\ load.pc = "expand"
    /\ Top(load).at = "entry"
    /\ load' = Entered(load, Top(load), Resolve(load.submodels, Top(load).name))
    /\ LoadStep

\* mpd_loader.cpp:255-282: the reference at i starts its activation
Referred(l, call, ref) ==
    [ l EXCEPT !.doc = OpenSubmodel(l.doc, call, ref),
               !.stack = [ @ EXCEPT ![Len(l.stack)].submodel_idx = SubmodelIdx(l.doc, call),
                                    ![Len(l.stack)].parts_before = Len(l.doc.parts) ]
                         \o << CallOf(ref, call, SubmodelIdx(l.doc, call)) >> ]

ExpandReference ==
    /\ load.pc = "expand"
    /\ Top(load).at = "refs"
    /\ Top(load).i <= Len(Top(load).refs)
    /\ load' = Referred(load, Top(load), Top(load).refs[Top(load).i])
    /\ LoadStep

\* main.cpp:1512-1590: the robot is created and the loop over the parts
\* of the document starts
StartMeshes(l) ==
    [ l EXCEPT !.pc = "meshes", !.stack = << >>, !.i = 1,
               !.robot_part_start = Len(l.parts) ]

\* mpd_loader.cpp:284-288 in the caller, or mpd_loader.cpp:404 and
\* main.cpp:1507-1510 when the activation of the main model returns
Returned(l) ==
    IF Len(l.stack) > 1
    THEN [ l EXCEPT !.doc = ClosePartCount(l.doc, l.stack[Len(l.stack) - 1]),
                    !.stack = [ SubSeq(@, 1, Len(@) - 1) EXCEPT ![Len(l.stack) - 1].i = @ + 1 ] ]
    ELSE IF Len(l.doc.parts) > 0 THEN StartMeshes(l)
    ELSE Continue(l, l.scene[l.robot_idx + 1], FALSE)

ExpandReturn ==
    /\ load.pc = "expand"
    /\ \/ Top(load).at = "return"
       \/ Top(load).at = "refs" /\ Top(load).i > Len(Top(load).refs)
    /\ load' = Returned(load)
    /\ LoadStep

\* main.cpp:1592-1659 for a part whose key is not in the cache
MeshLoaded(l, part, glb_name, mesh_data) ==
    [ l EXCEPT !.mesh_cache = CacheLoaded(@, glb_name, mesh_data),
               !.parts = PushPart(@, Loaded(glb_name, mesh_data), part, Len(l.robots)),
               !.events = Append(@, [ glb_name |-> glb_name, attempt |-> TRUE,
                                      mesh |-> Loaded(glb_name, mesh_data) ]),
               !.i = @ + 1 ]

\* main.cpp:1592-1659 for a part whose key is in the cache
MeshCached(l, part, glb_name) ==
    [ l EXCEPT !.parts = PushPart(@, l.mesh_cache[glb_name], part, Len(l.robots)),
               !.events = Append(@, [ glb_name |-> glb_name, attempt |-> FALSE,
                                      mesh |-> l.mesh_cache[glb_name] ]),
               !.i = @ + 1 ]

MeshFor(l, part, glb_name) ==
    IF glb_name \in DOMAIN l.mesh_cache THEN MeshCached(l, part, glb_name)
    ELSE MeshLoaded(l, part, glb_name, glb_load(GLB_FILES, glb_name))

LoadMesh ==
    /\ load.pc = "meshes"
    /\ load.i <= Len(load.doc.parts)
    /\ load' = MeshFor(load, load.doc.parts[load.i],
                       part_name_to_glb(load.doc.parts[load.i].part_name))
    /\ LoadStep

\* main.cpp:1661-1681, then the next robot
Stored(l) ==
    Continue([ l EXCEPT !.robots = Append(@, SubmodelRanges(l.doc, l.robot_part_start,
                                                            Len(l.parts))) ],
             l.scene[l.robot_idx + 1], TRUE)

StoreSubmodels ==
    /\ load.pc = "meshes"
    /\ load.i > Len(load.doc.parts)
    /\ load' = Stored(load)
    /\ LoadStep

NextLoad ==
    \/ MpdLoad
    \/ ParseNext
    \/ ParseEnd
    \/ ExpandEntry
    \/ ExpandReference
    \/ ExpandReturn
    \/ LoadMesh
    \/ StoreSubmodels

SpecLoad == InitLoad /\ [][NextLoad]_vars

\* the loaders run to the end: nothing but their own steps holds them up
SpecLoadFair == SpecLoad /\ WF_vars(NextLoad)

-----------------------------------------------------------------------------
(* The properties *)

\* the place of a step in the frame order of main.cpp:1890-1961
StepRank(step) ==
    CASE step = "poll" -> 0
      [] step = "drive" -> 1
      [] step \in { "robot_robot", "wall", "cylinder" } -> 2
      [] step = "cylinder_physics" -> 3
      [] step = "sync" -> 4
      [] step = "detect" -> 5
      [] step = "render" -> 6

\* how many steps named step the current frame has run
StepCount(step) ==
    Cardinality({ k \in 1..Len(hist.done) : hist.done[k][2] = step })

\* C1: every frame runs its steps in one fixed order: the drivetrain steps,
\* then all MAX_ITERATIONS iterations of the collision response (every pair,
\* every wall call, every cylinder call), then cylinder physics, then the
\* sync of the drivetrain pose into offset / rotation_y, and only then, and
\* only with show_bounding_boxes, the detection pass; every step on record
\* belongs to the frame that is running, so no step of a frame runs after
\* the next frame has started.
C1_FrameOrder ==
    LET n == Len(robots)
        ran(step) == StepCount(step) > 0
    IN  /\ \A k \in 1..Len(hist.done) : hist.done[k][1] = frame
        /\ \A k \in 1..(Len(hist.done) - 1) :
              StepRank(hist.done[k][2]) <= StepRank(hist.done[k + 1][2])
        /\ \A step \in { "poll", "drive", "cylinder_physics", "sync", "detect",
                         "render" } : StepCount(step) <= 1
        /\ ran("drive") => ran("poll")
        /\ ran("robot_robot") \/ ran("wall") \/ ran("cylinder") => ran("drive")
        /\ ran("cylinder_physics") =>
              /\ ran("drive")
              /\ StepCount("robot_robot") = MAX_ITERATIONS * ((n * (n - 1)) \div 2)
              /\ StepCount("wall") = MAX_ITERATIONS * n
              /\ StepCount("cylinder") = MAX_ITERATIONS * n
        /\ ran("sync") => ran("cylinder_physics")
        /\ ran("detect") => ran("sync") /\ show_bounding_boxes
        /\ ran("render") => ran("sync") /\ (ran("detect") <=> show_bounding_boxes)
        /\ pc.step = "poll" /\ frame > 0 => ran("render")
        /\ hist.last.step = "sync" =>
              \A r \in 1..n :
                  /\ robots[r].offset[1] = robots[r].drivetrain.pos_x
                  /\ robots[r].offset[3] = robots[r].drivetrain.pos_z
                  /\ robots[r].rotation_y = robots[r].drivetrain.heading

\* a frame of two robots has come to its detection pass
C1_Witness ==
    /\ hist.last.step = "detect"
    /\ Len(robots) = 2
    /\ frame = MaxFrames

\* the robots the response call about to run tests (0-based pc.i, pc.j)
TestedRobots ==
    IF pc.step = "robot_robot" THEN { pc.i + 1, pc.j + 1 }
    ELSE IF pc.step \in { "wall", "cylinder" } THEN { pc.i + 1 }
    ELSE {}

\* the same yaw, up to whole turns and the last digit of the normalisation
SameYaw(a, b) ==
    LET turn == (a - b) % TWO_PI
    IN  turn <= 2 \/ turn >= TWO_PI - 2

\* C2: every overlap test of the collision response is evaluated at the pose
\* the drivetrain holds in this frame: when a response call is about to run,
\* the offset and rotation_y that transform_obb_to_world reads equal the
\* drivetrain's pos_x, pos_z and heading of the robots it tests.
C2_ResponseSeesDrivenPose ==
    \A r \in TestedRobots :
        /\ robots[r].offset[1] = robots[r].drivetrain.pos_x
        /\ robots[r].offset[3] = robots[r].drivetrain.pos_z
        /\ SameYaw(robots[r].rotation_y, robots[r].drivetrain.heading)

\* C3: when the drivetrain step of a frame has run and the program of the
\* active robot reported speed 50 on the left-drive port (port 1) in this
\* frame's input, the active robot's left motor percent is 50.
C3_MotorsFromInput ==
    /\ hist.last.step = "drive"
    /\ active_robot_index >= 0
    /\ \E k \in 1..Len(input.state) :
          input.state[k].port = 1 /\ input.state[k].speed = 500
    => robots[active_robot_index + 1].drivetrain.left_motor_pct = 500

\* how far a world AABB extends beyond the field boundary (0 when inside)
BeyondField(box) ==
    Max(Max(-FHW - box.min[1], box.max[1] - FHW),
        Max(Max(-FHD - box.min[3], box.max[3] - FHD), 0))

\* C4: at the end of every frame of a scene whose robots all started inside
\* the field, no submodel's world enclosing AABB extends beyond a field
\* boundary by more than COLLISION_TOLERANCE.
C4_WallContainment ==
    /\ hist.last.step = "render"
    /\ hist.started_inside
    => \A r \in 1..Len(robots) : \A sm \in 1..robots[r].submodel_count :
          BeyondField(obb_get_enclosing_aabb(
              transform_obb_to_world(robots[r].submodel_obbs[sm], robots[r])))
            <= COLLISION_TOLERANCE

\* the largest element of a finite set of naturals, 0 for the empty set
SetMax(S) == IF S = {} THEN 0 ELSE CHOOSE x \in S : \A y \in S : y <= x

\* the indices into ps of the parts of a robot, with their submodels (0-based)
PartsOf(robot, ps) ==
    { e \in { << sm, PartIndex(robot, sm, p) >> :
                sm \in 0..(robot.submodel_count - 1), p \in 0..(Len(ps) - 1) } :
        /\ e[2] - robot.parts_start_index - robot.submodel_part_start[e[1] + 1]
             < robot.submodel_part_count[e[1] + 1]
        /\ e[2] < Len(ps) }

\* how far a world AABB reaches into wall w (left, right, back, front)
WallPenetration(box, w) ==
    CASE w = 0 -> -FHW - box.min[1]
      [] w = 1 -> box.max[1] - FHW
      [] w = 2 -> -FHD - box.min[3]
      [] w = 3 -> box.max[3] - FHD

\* the penetrations of the parts of a robot that touch wall w
WallPenetrations(robot, ps, w) ==
    { WallPenetration(obb_get_enclosing_aabb(
                        transform_obb_to_world(ps[e[2] + 1].local_obb, robot)), w) :
        e \in { e \in PartsOf(robot, ps) :
                  /\ obb_intersects_aabb(
                       transform_obb_to_world(robot.submodel_obbs[e[1] + 1], robot),
                       Walls(FHW, FHD)[w + 1])
                  /\ obb_intersects_aabb(
                       transform_obb_to_world(ps[e[2] + 1].local_obb, robot),
                       Walls(FHW, FHD)[w + 1])
                  /\ WallPenetration(obb_get_enclosing_aabb(
                       transform_obb_to_world(ps[e[2] + 1].local_obb, robot)), w) > 0 } }

\* the correction the dead-zone leaves of a penetration
BeyondTolerance(p) == IF p > COLLISION_TOLERANCE THEN p - COLLISION_TOLERANCE ELSE 0

\* the wall call that has just run moved its robot, on each axis, by the
\* deepest part penetration less the tolerance, away from the wall
WallDeadZone ==
    hist.last.step = "wall" =>
        LET before == hist.prev_robots[hist.last.i + 1]
            after  == robots[hist.last.i + 1]
            corr(w) == BeyondTolerance(
                         SetMax(WallPenetrations(before, hist.prev_parts, w)))
            dx == after.drivetrain.pos_x - before.drivetrain.pos_x
            dz == after.drivetrain.pos_z - before.drivetrain.pos_z
        IN  /\ dx \in { corr(0), -corr(1) }
            /\ Abs(dx) = Max(corr(0), corr(1))
            /\ dz \in { corr(2), -corr(3) }
            /\ Abs(dz) = Max(corr(2), corr(3))
            /\ dx = 0 /\ dz = 0 => after.offset = before.offset

\* world enclosing AABB of submodel sm (1-based) of a robot
SubmodelAabb(robot, sm) ==
    obb_get_enclosing_aabb(transform_obb_to_world(robot.submodel_obbs[sm], robot))

\* the submodel pairs of two robots that contribute a correction:
\* << sm_a, sm_b, correction of a along x, correction of a along z >>, the
\* correction lying on the axis of minimum penetration and pointing away
\* from b
PairCorrections(a, b) ==
    { LET box_a == SubmodelAabb(a, e[1])
          box_b == SubmodelAabb(b, e[2])
          ox == Min(box_a.max[1], box_b.max[1]) - Max(box_a.min[1], box_b.min[1])
          oz == Min(box_a.max[3], box_b.max[3]) - Max(box_a.min[3], box_b.min[3])
          sx == IF box_a.min[1] + box_a.max[1] < box_b.min[1] + box_b.max[1]
                THEN -1 ELSE 1
          sz == IF box_a.min[3] + box_a.max[3] < box_b.min[3] + box_b.max[3]
                THEN -1 ELSE 1
      IN  IF ox < oz THEN << e[1], e[2], sx * BeyondTolerance(ox), 0 >>
          ELSE << e[1], e[2], 0, sz * BeyondTolerance(oz) >> :
      e \in { e \in (1..a.submodel_count) \X (1..b.submodel_count) :
                LET box_a == SubmodelAabb(a, e[1])
                    box_b == SubmodelAabb(b, e[2])
                    ox == Min(box_a.max[1], box_b.max[1]) - Max(box_a.min[1], box_b.min[1])
                    oz == Min(box_a.max[3], box_b.max[3]) - Max(box_a.min[3], box_b.min[3])
                IN  /\ obb_intersects_obb(
                         transform_obb_to_world(a.submodel_obbs[e[1]], a),
                         transform_obb_to_world(b.submodel_obbs[e[2]], b))
                    /\ ox > 0 /\ oz > 0
                    /\ Min(ox, oz) > COLLISION_TOLERANCE } }

\* the sum of component k of a set of tuples
RECURSIVE SumOf(_, _)
SumOf(S, k) ==
    IF S = {} THEN 0
    ELSE LET e == CHOOSE e \in S : TRUE IN e[k] + SumOf(S \ { e }, k)

\* how far robot a has moved away from robot b in the last step, along x / z
SeparationX(i, j) ==
    (robots[i].drivetrain.pos_x - hist.prev_robots[i].drivetrain.pos_x)
    - (robots[j].drivetrain.pos_x - hist.prev_robots[j].drivetrain.pos_x)

SeparationZ(i, j) ==
    (robots[i].drivetrain.pos_z - hist.prev_robots[i].drivetrain.pos_z)
    - (robots[j].drivetrain.pos_z - hist.prev_robots[j].drivetrain.pos_z)

\* the contacts of a robot with a cylinder as the response measures them:
\* << penetration, dx, dz >> for every part that overlaps the cylinder, with
\* (dx, dz) from the cylinder's centre to the centre of the part's world AABB
\* and penetration = cylinder radius + part radius - distance
CylinderContacts(robot, ps, cyl) ==
    { LET box == obb_get_enclosing_aabb(
                   transform_obb_to_world(ps[e[2] + 1].local_obb, robot))
          dx == RDiv(box.min[1] + box.max[1], 2) - cyl.x
          dz == RDiv(box.min[3] + box.max[3], 2) - cyl.z
          rx == RDiv(box.max[1] - box.min[1], 2)
          rz == RDiv(box.max[3] - box.min[3], 2)
      IN  << cyl.radius + RDiv(sqrtf(rx * rx + rz * rz), 2) - sqrtf(dx * dx + dz * dz),
             dx, dz >> :
      e \in { e \in PartsOf(robot, ps) :
                /\ obb_intersects_circle(
                     transform_obb_to_world(robot.submodel_obbs[e[1] + 1], robot),
                     cyl.x, cyl.z, cyl.radius)
                /\ obb_intersects_circle(
                     transform_obb_to_world(ps[e[2] + 1].local_obb, robot),
                     cyl.x, cyl.z, cyl.radius) } }

\* the cylinder call that has just run moved every cylinder by its deepest
\* penetration less the tolerance, away from the part
CylinderDeadZone ==
    hist.last.step = "cylinder" =>
        \A c \in 1..Len(cylinders) :
            LET before == hist.prev_cylinders[c]
                robot == hist.prev_robots[hist.last.i + 1]
                hits == { h \in CylinderContacts(robot, hist.prev_parts, before) :
                            h[1] > 0 /\ (h[2] # 0 \/ h[3] # 0) }
                p == SetMax({ h[1] : h \in hits })
                dx == cylinders[c].x - before.x
                dz == cylinders[c].z - before.z
            IN  IF p <= COLLISION_TOLERANCE
                THEN dx = 0 /\ dz = 0
                ELSE /\ Abs(sqrtf(dx * dx + dz * dz) - (p - COLLISION_TOLERANCE)) <= 1
                     /\ \E h \in hits : h[1] = p /\ dx * h[2] + dz * h[3] < 0

\* the robot-robot call that has just run changed no position when no
\* submodel pair contributes
RobotQuiet ==
    hist.last.step = "robot_robot" =>
        LET i == hist.last.i + 1
            j == hist.last.j + 1
        IN  PairCorrections(hist.prev_robots[i], hist.prev_robots[j]) = {} =>
                /\ robots[i].drivetrain.pos_x = hist.prev_robots[i].drivetrain.pos_x
                /\ robots[i].drivetrain.pos_z = hist.prev_robots[i].drivetrain.pos_z
                /\ robots[j].drivetrain.pos_x = hist.prev_robots[j].drivetrain.pos_x
                /\ robots[j].drivetrain.pos_z = hist.prev_robots[j].drivetrain.pos_z
                /\ robots[i].offset = hist.prev_robots[i].offset
                /\ robots[j].offset = hist.prev_robots[j].offset

\* C5 as stated: with p the penetration the response measures (deepest part
\* AABB into a wall; smaller overlap of two submodels' enclosing AABBs;
\* cylinder radius + part radius - distance), p <= 0.15 in changes no
\* position and p > 0.15 in separates the two bodies by exactly p - 0.15,
\* for wall, robot-cylinder and every contributing robot-robot contact
\* (robot positions to the grid of 0.01 in).
C5_ExactPerContact ==
    /\ WallDeadZone
    /\ CylinderDeadZone
    /\ RobotQuiet
    /\ hist.last.step = "robot_robot" =>
          LET i == hist.last.i + 1
              j == hist.last.j + 1
          IN  \A e \in PairCorrections(hist.prev_robots[i], hist.prev_robots[j]) :
                  /\ e[3] # 0 => Abs(SeparationX(i, j) - e[3]) <= 1
                  /\ e[4] # 0 => Abs(SeparationZ(i, j) - e[4]) <= 1

\* C5 (amended): wall and robot-cylinder contact as stated; for robot-robot
\* contact the corrections p - 0.15 of the contributing submodel pairs, each
\* on its axis of minimum penetration and signed away from the other robot,
\* are summed per axis and divided by the number of contributing pairs, and
\* the two robots are separated by that average (so by p - 0.15 only when
\* one pair contributes); without a contributing pair nothing moves.
C5_DeadZone ==
    /\ WallDeadZone
    /\ CylinderDeadZone
    /\ RobotQuiet
    /\ hist.last.step = "robot_robot" =>
          LET i == hist.last.i + 1
              j == hist.last.j + 1
              corrections == PairCorrections(hist.prev_robots[i], hist.prev_robots[j])
              count == Cardinality(corrections)
          IN  count > 0 =>
                 /\ Abs(SeparationX(i, j) - RDiv(SumOf(corrections, 3), count)) <= 1
                 /\ Abs(SeparationZ(i, j) - RDiv(SumOf(corrections, 4), count)) <= 1
                 /\ count = 1 =>
                       \A e \in corrections :
                           /\ Abs(SeparationX(i, j) - e[3]) <= 1
                           /\ Abs(SeparationZ(i, j) - e[4]) <= 1

\* a robot-robot call has separated two robots that overlapped in two
\* submodel pairs
C5_Witness ==
    /\ hist.last.step = "robot_robot"
    /\ Cardinality(PairCorrections(hist.prev_robots[hist.last.i + 1],
                                   hist.prev_robots[hist.last.j + 1])) = 2
    /\ SeparationX(hist.last.i + 1, hist.last.j + 1) # 0
    /\ SeparationZ(hist.last.i + 1, hist.last.j + 1) # 0

\* the contact constraint of a drivetrain: << in_contact, contact_nx, contact_nz >>
ContactOf(d) == << d.in_contact, d.contact_nx, d.contact_nz >>

VelocityInto(d, c) == -(d.vel_x * c.contact_nx + d.vel_z * c.contact_nz)

\* C7: a drivetrain step that starts with in_contact set attenuates the
\* motion into the surface: the velocity along -n after the step is smaller
\* than after the same step of the same drivetrain without the contact,
\* whenever that step would move the robot into the surface.
C7_ContactAttenuates ==
    hist.last.step = "drive" =>
        \A r \in 1..Len(robots) :
            LET before == hist.prev_robots[r].drivetrain
                free == drivetrain_update([ before EXCEPT !.in_contact = FALSE ], dt)
            IN  before.in_contact /\ VelocityInto(free, before) > 0 =>
                    VelocityInto(robots[r].drivetrain, before)
                      < VelocityInto(free, before)

\* the velocities of a drivetrain
VelocityOf(d) == << d.vel_x, d.vel_z, d.angular_vel >>

\* C9: no call of the collision response changes vel_x, vel_z or angular_vel
\* of a robot.
C9_ResponseKeepsVelocity ==
    hist.last.step \in { "robot_robot", "wall", "cylinder" } =>
        \A r \in 1..Len(robots) :
            VelocityOf(robots[r].drivetrain)
              = VelocityOf(hist.prev_robots[r].drivetrain)

\* the accumulators of a drivetrain
AccumulatorsOf(d) == << d.ext_force_x, d.ext_force_z, d.ext_torque >>

\* C8: the accumulators hold the sum of the forces and torques applied since
\* the last drivetrain_update; every drivetrain_update ends with all three
\* zero; and an update that starts with a nonzero accumulator differs from
\* the update of the same drivetrain with the accumulators zero, while one
\* that starts after another update with nothing applied in between does not.
C8_Accumulators ==
    LET d == robots[1].drivetrain
        before == hist.prev_robots[1].drivetrain
        unforced == drivetrain_update([ before EXCEPT !.ext_force_x = 0,
                                                      !.ext_force_z = 0,
                                                      !.ext_torque = 0 ], dt)
    IN  /\ AccumulatorsOf(d) = hist.sum
        /\ hist.last.step = "update" =>
              /\ AccumulatorsOf(d) = << 0, 0, 0 >>
              /\ AccumulatorsOf(before) # << 0, 0, 0 >> => d # unforced
              /\ AccumulatorsOf(before) = << 0, 0, 0 >> => d = unforced

\* an update has consumed the sum of two applied forces
C8_Witness ==
    /\ hist.last.step = "update"
    /\ AccumulatorsOf(hist.prev_robots[1].drivetrain) = << 600, 600, 0 >>
    /\ AccumulatorsOf(robots[1].drivetrain) = << 0, 0, 0 >>

\* no motor command, no applied force or torque, no velocity
Neutral(d) ==
    /\ d.left_motor_pct = 0 /\ d.right_motor_pct = 0
    /\ AccumulatorsOf(d) = << 0, 0, 0 >>
    /\ VelocityOf(d) = << 0, 0, 0 >>

\* C10 as stated: a drivetrain_update of a neutral drivetrain leaves pos_x,
\* pos_z and heading unchanged, whatever pose drivetrain_set_position stored.
C10_PoseUnchanged ==
    hist.last.step = "update" /\ Neutral(hist.prev_robots[1].drivetrain) =>
        /\ robots[1].drivetrain.pos_x = hist.prev_robots[1].drivetrain.pos_x
        /\ robots[1].drivetrain.pos_z = hist.prev_robots[1].drivetrain.pos_z
        /\ robots[1].drivetrain.heading = hist.prev_robots[1].drivetrain.heading

\* C10 (amended): a drivetrain_update of a neutral drivetrain leaves pos_x and
\* pos_z unchanged; it leaves heading unchanged when the heading is within
\* [-PI, PI], and otherwise moves it by whole turns into that interval.
C10_Neutrality ==
    hist.last.step = "update" /\ Neutral(hist.prev_robots[1].drivetrain) =>
        LET before == hist.prev_robots[1].drivetrain
            after == robots[1].drivetrain
        IN  /\ after.pos_x = before.pos_x
            /\ after.pos_z = before.pos_z
            /\ before.heading >= -PI /\ before.heading <= PI =>
                  after.heading = before.heading
            /\ after.heading >= -PI /\ after.heading <= PI
            /\ (after.heading - before.heading) % TWO_PI = 0
            /\ VelocityOf(after) = << 0, 0, 0 >>

\* a neutral drivetrain placed at yaw 270 degrees has been updated
C10_Witness ==
    /\ hist.last.step = "update"
    /\ Neutral(hist.prev_robots[1].drivetrain)
    /\ hist.prev_robots[1].drivetrain.heading > PI
    /\ hist.prev_robots[1].drivetrain.pos_x = 1000
    /\ robots[1].drivetrain.pos_x = 1000

\* the wheel surface velocities are equal in magnitude and nothing is applied
Balanced(d) ==
    /\ Abs(d.left_wheel_vel) = Abs(d.right_wheel_vel)
    /\ AccumulatorsOf(d) = << 0, 0, 0 >>

\* at rest or driven straight so far: no rotation
Straight(d) ==
    /\ Balanced(d)
    /\ d.left_motor_pct = d.right_motor_pct
    /\ d.angular_vel = 0

\* at rest or turned on the spot so far, by the commands (-p, p) with p > 0
Turning(d) ==
    /\ Balanced(d)
    /\ d.left_motor_pct = -d.right_motor_pct
    /\ d.right_motor_pct > 0
    /\ d.vel_x = 0 /\ d.vel_z = 0
    /\ d.angular_vel >= 0

\* C11 as stated: a step with the commands (p, p) leaves the angular velocity
\* zero and the heading unchanged; a step with (-p, p), p > 0, leaves the
\* forward velocity zero and increases the heading.
C11_Symmetry ==
    hist.last.step = "update" =>
        LET before == hist.prev_robots[1].drivetrain
            after == robots[1].drivetrain
        IN  /\ Straight(before) =>
                  after.angular_vel = 0 /\ after.heading = before.heading
            /\ Turning(before) =>
                  after.linear_velocity = 0 /\ after.heading > before.heading

\* the counter-clockwise advance of the heading from a to b, in [0, TWO_PI)
Advance2Pi(a, b) == (b - a) % TWO_PI

\* drivetrain.cpp:101: the wheel surface velocity at the no-load speed
MaxWheelVelocity(d) == RDiv(d.config.max_rpm * PI * d.config.wheel_diameter, 60 * Scale)

\* the motors of a turning drivetrain have torque left, or it turns already
CanTurn(d) ==
    /\ d.right_motor_pct >= MOTORS_OFF_BELOW
    /\ d.angular_vel > 0 \/ Abs(d.left_wheel_vel) < MaxWheelVelocity(d)

\* C11 (amended): a step with the commands (p, p) leaves the angular velocity
\* zero and the heading unchanged up to its normalisation into [-PI, PI]; a
\* step with (-p, p), p > 0, leaves the forward velocity zero and never turns
\* the heading clockwise; with p at least 1 percent and wheel speeds below
\* the no-load speed it makes the angular velocity positive and advances the
\* heading counter-clockwise modulo TWO_PI.  Both conditions carry over to
\* the next step.
C11_SymmetryModuloTurns ==
    hist.last.step = "update" =>
        LET before == hist.prev_robots[1].drivetrain
            after == robots[1].drivetrain
        IN  /\ Straight(before) =>
                  /\ after.angular_vel = 0
                  /\ after.heading = NormalizeHeading(before.heading)
                  /\ Advance2Pi(before.heading, after.heading) = 0
                  /\ Straight(after)
            /\ Turning(before) =>
                  /\ after.linear_velocity = 0
                  /\ after.vel_x = 0 /\ after.vel_z = 0
                  /\ after.angular_vel >= 0
                  /\ Advance2Pi(before.heading, after.heading) < HALF_PI
                  /\ after.heading >= -PI /\ after.heading <= PI
                  /\ Turning(after)
            /\ Turning(before) /\ CanTurn(before) =>
                  /\ after.angular_vel > 0
                  /\ Advance2Pi(before.heading, after.heading) > 0

\* a second step of a turn on the spot, and the heading has advanced
C11_Witness ==
    /\ hist.last.step = "update"
    /\ Turning(hist.prev_robots[1].drivetrain)
    /\ hist.prev_robots[1].drivetrain.right_motor_pct = 750
    /\ hist.prev_robots[1].drivetrain.angular_vel > 0
    /\ robots[1].drivetrain.heading > hist.prev_robots[1].drivetrain.heading

\* C12: after every drivetrain step the heading lies in the half-open
\* interval (-PI, PI]; -PI itself is never the stored heading.
C12_YawHalfOpen ==
    hist.last.step = "update" =>
        /\ robots[1].drivetrain.heading > -PI
        /\ robots[1].drivetrain.heading <= PI

\* the cylinders as the pair loop of update_cylinder_physics finds them when
\* it reaches the pair (si, sj), having started at (i, j)
RECURSIVE CylindersAt(_, _, _, _, _)
CylindersAt(cyls, i, j, si, sj) ==
    IF (i = si /\ j = sj) \/ i > Len(cyls) THEN cyls
    ELSE IF j > Len(cyls) THEN CylindersAt(cyls, i + 1, i + 2, si, sj)
    ELSE CylindersAt(StorePair(cyls, i, j, CylinderPair(cyls[i], cyls[j])),
                     i, j + 1, si, sj)

\* distance of the centers of two cylinders
CenterDistance(a, b) ==
    sqrtf((b.x - a.x) * (b.x - a.x) + (b.z - a.z) * (b.z - a.z))

\* the pair (a, b) is one the loop resolves, with this overlap
Overlap(a, b) == a.radius + b.radius - CenterDistance(a, b)

Resolved(a, b) == Overlap(a, b) > 0 /\ CenterDistance(a, b) > DIST_MIN

\* relative velocity of b against a along the line of centers of (a0, b0),
\* times the distance of the centers
ApproachTimesDistance(a, b, a0, b0) ==
    (b.vel_x - a.vel_x) * (b0.x - a0.x) + (b.vel_z - a.vel_z) * (b0.z - a0.z)

\* mass-weighted velocity sum
Momentum(a, b) ==
    << a.mass * a.vel_x + b.mass * b.vel_x, a.mass * a.vel_z + b.mass * b.vel_z >>

\* the displacement of cylinder c from c0
Displacement(c0, c) == << c.x - c0.x, c.z - c0.z >>

\* C13 for the pair (a, b) and the outcome res of its resolution.  In fixed
\* point "exactly" is up to the last digit: a resolution rounds each velocity
\* and position change twice per axis and cylinder (at most 3/4 of a unit
\* each), so a relative velocity along the line of centers is known to 3
\* units and a distance of centers, itself a rounded root, to 4 units; the
\* normal is held with 1 / Scale per component, which leaves 2 / Scale of the
\* approaching velocity.
InelasticPair(a, b, res) ==
    /\ Resolved(a, b) /\ ApproachTimesDistance(a, b, a, b) < 0 =>
          /\ Abs(ApproachTimesDistance(res[1], res[2], a, b)) * Scale
                <= 3 * CenterDistance(a, b) * Scale
                     + 2 * Abs(ApproachTimesDistance(a, b, a, b))
          /\ Momentum(res[1], res[2]) = Momentum(a, b)
    /\ Resolved(a, b) /\ Overlap(a, b) > CYLINDER_TOLERANCE =>
          /\ Abs(CenterDistance(res[1], res[2]) - CenterDistance(a, b)
                    - (Overlap(a, b) - CYLINDER_TOLERANCE)) <= 4
          /\ a.mass * Displacement(a, res[1])[1] = -b.mass * Displacement(b, res[2])[1]
          /\ a.mass * Displacement(a, res[1])[2] = -b.mass * Displacement(b, res[2])[2]
    /\ Resolved(a, b) /\ Overlap(a, b) <= CYLINDER_TOLERANCE =>
          /\ res[1].x = a.x /\ res[1].z = a.z /\ res[2].x = b.x /\ res[2].z = b.z

\* C13: every pair that update_cylinder_physics resolves is left without
\* relative velocity along its line of centers (up to the last digit) and
\* with its mass-weighted velocity sum unchanged, if it was approaching; and
\* is moved apart by the excess of its overlap over CYLINDER_TOLERANCE, each
\* cylinder by the share of the other's mass, if the overlap exceeded it.
C13_InelasticPairs ==
    hist.last.step = "cylinder_physics" =>
        /\ cylinders = update_cylinder_physics(hist.prev_cylinders, dt, FHW, FHD)
        /\ \A i \in 1..Len(cylinders), j \in 1..Len(cylinders) :
              i < j =>
                LET at == CylindersAt(hist.prev_cylinders, 1, 2, i, j)
                IN  InelasticPair(at[i], at[j], CylinderPair(at[i], at[j]))

\* a pushed cylinder has met its neighbour: the pair was approaching and
\* overlapped by more than the tolerance, and now both move
C13_Witness ==
    /\ hist.last.step = "cylinder_physics"
    /\ Len(cylinders) = 3
    /\ ApproachTimesDistance(hist.prev_cylinders[1], hist.prev_cylinders[2],
                             hist.prev_cylinders[1], hist.prev_cylinders[2]) < 0
    /\ Overlap(hist.prev_cylinders[1], hist.prev_cylinders[2]) > CYLINDER_TOLERANCE
    /\ cylinders[2].vel_z > 0
    /\ cylinders[3].vel_z > 0

\* the lines that are complete in text, and the bytes after the last newline
LinesOf(text) == ProcessLines(ZeroBridge, text, << >>)

\* the complete lines among the bytes read so far that begin with '{'
BraceLines(text) ==
    LET lines == SelectSeq(LinesOf(text).seen, IsHanded)
    IN  [ i \in 1..Len(lines) |-> lines[i].json ]

\* C14: however the child's bytes were split into reads, after every
\* python_bridge_update the texts handed to process_message are exactly the
\* newline-terminated lines read so far that begin with '{', each once and in
\* stream order, and the buffer holds the bytes read after the last newline
\* (as long as the bridge has not been destroyed).
C14_FramingIndependent ==
    ipc.last = "update" /\ ipc.w.fds # { } =>
        /\ ipc.handed = BraceLines(ipc.consumed)
        /\ ipc.w.bridge.read_buffer = LinesOf(ipc.consumed).rest
        /\ ipc.w.bridge.read_pos = Bytes(LinesOf(ipc.consumed).rest)

\* the line is the whole text of line id of LINES
IsLine(json, id) == json = << Run(id, 0, LINES[id].len) >>

\* the shutdown message is one of the complete lines read so far
ShutdownRead ==
    \E i \in 1..Len(LinesOf(ipc.consumed).seen) :
        IsLine(LinesOf(ipc.consumed).seen[i].json, 5)

\* C15: an update that finds the child gone, or that has read a shutdown
\* message, leaves connected false; and a call other than destroy made on a
\* bridge that is not connected leaves it not connected with the same motor
\* state, writes nothing to the child and, if it is an update, returns false.
C15_Disconnect ==
    /\ ipc.last = "update" /\ ShutdownRead => ~ipc.w.bridge.connected
    /\ ipc.last = "update" /\ ipc.before.child # "running" =>
            ~ipc.w.bridge.connected /\ ~ipc.returned
    /\ ipc.last \in { "update", "send_gamepad", "send_tick", "child_exit" }
       /\ ~ipc.before.bridge.connected =>
            /\ ~ipc.w.bridge.connected
            /\ ipc.w.bridge.state = ipc.before.bridge.state
            /\ ipc.w.stdin_pipe = ipc.before.stdin_pipe
            /\ ipc.last = "update" => ~ipc.returned

\* a well-formed protocol message: a whole line that is valid JSON and whose
\* type is one of the five the protocol knows
WellFormed(json) ==
    /\ \E id \in 1..Len(LINES) : IsLine(json, id) /\ LINES[id].valid
    /\ json_get_string(json, "type") \in
            { "ready", "state", "status", "error", "shutdown" }

\* C16: every line python_bridge_update takes out of the buffer that is not
\* a well-formed protocol message leaves connected, robot_ready, the project
\* name, the motor and pneumatic states and the status and error strings
\* as they were.
C16_MalformedDiscarded ==
    \A i \in 1..Len(ipc.seen) :
        ~WellFormed(ipc.seen[i].json) => ipc.seen[i].after = ipc.seen[i].before

\* the system calls of the last call
CallsOfLast == SubSeq(ipc.w.trace, Len(ipc.before.trace) + 1, Len(ipc.w.trace))

FirstWithProgramPath(sr) ==
    IF \E k \in 1..Len(sr) : sr[k].iqpython_file # ""
    THEN (CHOOSE k \in 1..Len(sr) :
            sr[k].iqpython_file # "" /\ \A o \in 1..(k - 1) : sr[o].iqpython_file = "") - 1
    ELSE -1

\* the 0-based indices the keys pressed in the last poll may select: those of
\* the placements that exist and declare a non-empty program path
Selectable ==
    { k - 1 : k \in { n \in 1..4 : /\ NUMBER_KEYS[n] \in input.keys
                                   /\ n <= Len(scene_robots)
                                   /\ scene_robots[n].iqpython_file # "" } }

\* C18: with the scene loaded, the active robot is none (-1) or the index of
\* a placement of the scene with a non-empty program path; when the loop is
\* entered it is the first such placement; and a poll leaves it as it was
\* unless a key 1..4 naming such a placement was pressed.
C18_ActiveRobot ==
    hist.scene_read =>
        /\ \/ active_robot_index = -1
           \/ /\ active_robot_index \in 0..(Len(scene_robots) - 1)
              /\ scene_robots[active_robot_index + 1].iqpython_file # ""
        /\ hist.last.step = "init" =>
              active_robot_index = FirstWithProgramPath(scene_robots)
        /\ hist.last.step = "poll" =>
              active_robot_index \in { hist.prev_active } \cup Selectable

\* C19: if scene_load could not read the scene file, main() has returned 1
\* and no frame of the loop was ever started.
C19_UnreadableSceneIsFatal ==
    ~hist.scene_read => frame = 0 /\ pc.step = "exit" /\ hist.exit_code = 1

\* C20: every placement whose document loads gets a robot, and a robot
\* without a robot definition has the pivot (0,0,0), the axis (0,1,0), track
\* width 0 and no wheel assemblies; none of its parts has a wheel index and
\* no step changes a wheel spin angle of it.
C20_DefaultsWithoutDefinition ==
    hist.scene_read =>
        /\ Len(robots) = Cardinality({ k \in 1..Len(scene_robots) :
                                        scene_robots[k].mpd_file \in DOMAIN DOCS })
        /\ \A r \in 1..Len(robots) :
              ~robots[r].has_robotdef =>
                  /\ robots[r].rotation_center = << 0, 0, 0 >>
                  /\ robots[r].rotation_axis = << 0, Scale, 0 >>
                  /\ robots[r].track_width = 0
                  /\ robots[r].wheel_count = 0
                  /\ \A p \in 1..Len(parts) :
                        parts[p].robot_index = r - 1 => parts[p].wheel_index = -1
                  /\ \A w \in 1..Len(robots[r].wheels) :
                        robots[r].wheels[w].spin_angle = 0

\* the parts the mesh loop handled before its k-th whose key is the same
EarlierSameKey(k) ==
    { j \in 1..(k - 1) : load.events[j].glb_name = load.events[k].glb_name }

\* the parts the mesh loop handled that got a mesh
WithMesh(events) == { k \in 1..Len(events) : ~events[k].mesh.null }

\* C21: during scene realization each mesh key is loaded at most once: the
\* part the mesh loop handled last, if its key was met before, made no load
\* attempt and got what the first part with that key got, the mesh or
\* nothing (it is then skipped); the parts instantiated are exactly the
\* parts that got a mesh
C21_LoadedAtMostOnce ==
    /\ \A j \in EarlierSameKey(Len(load.events)) :
          /\ ~load.events[Len(load.events)].attempt
          /\ load.events[Len(load.events)].mesh = load.events[j].mesh
    /\ load.pc = "done" => Len(load.parts) = Cardinality(WithMesh(load.events))

\* a key whose load failed and a key whose load succeeded have both been
\* met again
C21_Witness ==
    /\ load.pc = "done"
    /\ \E k \in 1..Len(load.events) : \E j \in EarlierSameKey(k) : load.events[j].mesh.null
    /\ \E k \in 1..Len(load.events) : \E j \in EarlierSameKey(k) : ~load.events[j].mesh.null

\* the section a name resolves to
SectionOf(submodels, name) == submodels[Resolve(submodels, name).key]

\* a placement (t, r) seen from the frame (T, R): (T + R*t, R*r)
Placed(outer, pos, rotation) ==
    [ pos |-> Vec3Add(outer.pos, mat3_transform_point(outer.rot, pos)),
      rot |-> mat3_multiply(outer.rot, rotation) ]

\* the frame of the n-th reference of a chain of references that starts in
\* the main model, each placed in the frame of the one before
RECURSIVE ChainFrame(_, _, _)
ChainFrame(submodels, path, n) ==
    IF n = 0 THEN [ pos |-> << 0, 0, 0 >>, rot |-> IDENTITY3 ]
    ELSE Placed(ChainFrame(submodels, path, n - 1),
                SectionOf(submodels, path[n].name).submodels[path[n].i].pos,
                SectionOf(submodels, path[n].name).submodels[path[n].i].rotation)

\* where the chain of references above a flattened part puts the part
PlacedByChain(submodels, origin) ==
    Placed(ChainFrame(submodels, origin.path, Len(origin.path)),
           SectionOf(submodels, origin.name).parts[origin.k].pos,
           SectionOf(submodels, origin.name).parts[origin.k].rotation)

\* mpd_load has just returned the document to the loop over the robots
JustLoaded == load.pc = "meshes" /\ load.i = 1

\* C22: in the document mpd_load returns, a part placed at (t, r) in a
\* section that the chain of references above it places at (T, R) has the
\* position T + R*t and the rotation R*r, (T, R) being composed reference by
\* reference from the main model down, at every depth up to the cap
C22_ComposedTransforms ==
    JustLoaded =>
        \A p \in 1..Len(load.doc.parts) :
            /\ load.doc.parts[p].pos = PlacedByChain(load.submodels, load.paths[p]).pos
            /\ load.doc.parts[p].rotation = PlacedByChain(load.submodels, load.paths[p]).rot

\* a document is returned with a part under MAX_DEPTH nested references,
\* turned and moved by them
C22_Witness ==
    /\ JustLoaded
    /\ \E p \in 1..Len(load.doc.parts) :
          /\ Len(load.paths[p].path) = MAX_DEPTH
          /\ load.doc.parts[p].rotation # IDENTITY3
          /\ load.doc.parts[p].pos # SectionOf(load.submodels, load.paths[p].name).parts[load.paths[p].k].pos

\* mpd_load has returned load.doc (with true or with false) and the loop
\* over the robots has not touched it yet
DocumentReturned ==
    \/ JustLoaded
    \/ load.pc \in { "scene", "done" } /\ load.returned # << >>
         /\ ~load.returned[Len(load.returned)].result

\* the parts of the submodel range k (1-based positions in the part list)
RangeOf(doc, k) ==
    (doc.submodels[k].part_start + 1)..(doc.submodels[k].part_start + doc.submodels[k].part_count)

\* C23: in every document mpd_load returns, the submodel index of each part
\* is -1 or below the submodel count, and the range of each submodel lies
\* within the part list and holds exactly the parts with its index
C23_SubmodelRanges ==
    DocumentReturned =>
        /\ \A p \in 1..Len(load.doc.parts) :
              \/ load.doc.parts[p].submodel_index = -1
              \/ /\ load.doc.parts[p].submodel_index >= 0
                 /\ load.doc.parts[p].submodel_index < Len(load.doc.submodels)
        /\ \A k \in 1..Len(load.doc.submodels) :
              /\ RangeOf(load.doc, k) \subseteq 1..Len(load.doc.parts)
              /\ \A p \in 1..Len(load.doc.parts) :
                    load.doc.parts[p].submodel_index = k - 1 <=> p \in RangeOf(load.doc, k)

\* a document is returned in which both limits were reached: the part list
\* is full, every submodel slot is taken and a reference beyond the last
\* slot left parts without a submodel
C23_Witness ==
    /\ JustLoaded
    /\ Len(load.doc.parts) = MPD_MAX_PARTS
    /\ Len(load.doc.submodels) = MPD_MAX_SUBMODELS
    /\ \E p \in 1..Len(load.doc.parts) :
          load.doc.parts[p].submodel_index = -1 /\ load.paths[p].path # << >>
    /\ \E k \in 1..Len(load.doc.submodels) : load.doc.submodels[k].part_count > 1

\* mpd_load is running
InMpdLoad == load.pc \in { "parse", "expand" }

\* no activation of expand_submodel lies under more than MAX_DEPTH + 1
\* references and none that does gets past its entry; no part lies under
\* more than MAX_DEPTH references; the part list holds at most MPD_MAX_PARTS
WithinLimits ==
    /\ \A c \in 1..Len(load.stack) :
          /\ load.stack[c].depth <= MAX_DEPTH + 1
          /\ load.stack[c].depth > MAX_DEPTH => load.stack[c].at # "refs"
    /\ load.deepest <= MAX_DEPTH
    /\ \A p \in 1..Len(load.paths) : Len(load.paths[p].path) <= MAX_DEPTH
    /\ Len(load.doc.parts) <= MPD_MAX_PARTS

\* C24: mpd_load terminates on every document, cyclic ones included: every
\* call of it returns, expansion goes no further than the activation under
\* 21 nested references (which returns at once), no part under more than 20
\* nested references is emitted and the part count never exceeds 1024
C24_Terminates ==
    /\ InMpdLoad ~> ~InMpdLoad
    /\ [](WithinLimits)

\* mpd_load has returned from a document whose references form a cycle:
\* parts lie under 20 nested references and a deeper activation was refused
C24_Witness ==
    /\ JustLoaded
    /\ load.refused > 0
    /\ \E p \in 1..Len(load.paths) :
          /\ Len(load.paths[p].path) = MAX_DEPTH
          /\ \E a, b \in 1..MAX_DEPTH :
                a < b /\ load.paths[p].path[a].name = load.paths[p].path[b].name

\* strcasecmp(a, b) = 0
SameIgnoringCase(a, b) == tolower(a) = tolower(b)

\* C25: a reference to a submodel is expanded whenever some section name of
\* the document equals the referent ignoring letter case: no reference was
\* left unexpanded for want of a section while such a section existed
C25_CaseInsensitive ==
    \A u \in load.unresolved :
        \A section \in u.sections : ~SameIgnoringCase(section, u.name)

\* main.cpp:1021-1027: the positions (1-based) in the global part list that
\* the narrow phase visits for submodel k (1-based) of a robot; an index
\* past the end of the list is passed over
NarrowPhaseVisits(robot, k, ps) ==
    { idx \in (robot.parts_start_index + robot.submodel_part_start[k] + 1)
                ..(robot.parts_start_index + robot.submodel_part_start[k]
                     + robot.submodel_part_count[k]) : idx <= Len(ps) }

\* C27: every part instance the narrow phase visits for submodel k of robot
\* r belongs to robot r and has submodel index k, also when parts were
\* skipped at load because their mesh was missing
C27_NarrowPhaseParts ==
    \A r \in 1..Len(load.robots) : \A k \in 1..load.robots[r].submodel_count :
        \A idx \in NarrowPhaseVisits(load.robots[r], k, load.parts) :
            /\ load.parts[idx].robot_index = r - 1
            /\ load.parts[idx].submodel_index = k - 1


\* C26: after a full detection pass over any number of robots, every submodel
\* whose world box intersects a submodel box of another robot is marked with a
\* state other than none: the marks of one pair survive the later pairs
C26_MarksSurvive ==
    hist.last.step = "detect" =>
        \A i \in 1..Len(robots) : \A j \in 1..Len(robots) :
            i # j =>
                \A pr \in SubmodelPairHits(robots[i], robots[j]) :
                    robots[i].submodel_collision_state[pr[1] + 1] # COLLISION_NONE


\* C28: in_contact reflects current contact only: at the end of a frame in
\* which the collision response applied no correction to a robot, the robot's
\* in_contact flag is false
C28_ContactIsCurrent ==
    hist.last.step = "render" =>
        \A r \in 1..Len(robots) :
            r \notin hist.corrected => ~robots[r].drivetrain.in_contact


\* the complete lines read so far that are well-formed messages: valid JSON
\* that begins with '{' and fits the read buffer
WellFormedRead ==
    { id \in 1..Len(LINES) :
        /\ LINES[id].brace /\ LINES[id].valid
        /\ LINES[id].len + 1 < MAX_MESSAGE_SIZE
        /\ \E i \in 1..Len(BraceLines(ipc.consumed)) :
              IsLine(BraceLines(ipc.consumed)[i], id) }

\* C29: no line can block the bridge for good: once an update has read every
\* byte the child wrote (the pipe is empty, so no later update can find
\* anything more), every complete well-formed message line the child wrote
\* has been processed by some update
C29_NeverBlocked ==
    /\ ipc.last = "update"
    /\ ipc.w.fds # { }
    /\ ipc.w.stdout_pipe = << >>
    => \A id \in WellFormedRead :
          \E j \in 1..Len(ipc.handed) : IsLine(ipc.handed[j], id)

\* the robot has been let go and no external force or torque is pending
Coasting ==
    /\ Released
    /\ robots[1].drivetrain.ext_force_x = 0
    /\ robots[1].drivetrain.ext_force_z = 0
    /\ robots[1].drivetrain.ext_torque = 0

Stopped ==
    /\ robots[1].drivetrain.vel_x = 0
    /\ robots[1].drivetrain.vel_z = 0
    /\ robots[1].drivetrain.angular_vel = 0

\* the last frame changed nothing of the robot; a frame is a function of the
\* robot, so no later frame changes anything either
Settled == hist.last.step = "coast" /\ robots = hist.prev_robots

PoseOf(d) == << d.pos_x, d.pos_z, d.heading >>

\* another drivetrain step leaves the velocities zero and the pose as it is
Rests(d, next) ==
    /\ next.vel_x = 0 /\ next.vel_z = 0 /\ next.angular_vel = 0
    /\ PoseOf(next) = PoseOf(d)

\* C30: with both motor commands below 1 percent and no external force the
\* robot stops after finitely many frames, whatever velocity it had: the
\* frames cannot settle in a state in which vel_x, vel_z or angular_vel is
\* not exactly zero, and once all three are zero a drivetrain step leaves
\* them zero and the pose constant
C30_ComesToRest ==
    Coasting =>
        /\ Settled => Stopped
        /\ Stopped => Rests(robots[1].drivetrain,
                            drivetrain_update(robots[1].drivetrain, COAST_DT))

====
